---- MODULE Spec2Model ----
(***************************************************************************)
(* Model of the R2/S3 upload library (src/r2-upload/scripts/upload.py).    *)
(*                                                                         *)
(* Text is modelled as a sequence of tokens: a token is one character or   *)
(* an atomic chunk of characters that no operation of the library splits   *)
(* ("https://", a host name, an access key).  String formatting is         *)
(* concatenation (\o).  Hashes and HMACs are free constructors (tuples     *)
(* tagged with the function name), so that two digests are equal exactly   *)
(* when their inputs are equal.                                            *)
(***************************************************************************)
EXTENDS Integers, Sequences, FiniteSets, TLC

\* ------------------------------------------------------------------ bounds
MaxKeyLen == 2
MaxClock == 1

\* -------------------------------------------------------------------- state
VARIABLES
    mimedb,     \* the MIME table of the platform: what mimetypes has loaded
    config,     \* the configuration mapping handed to the library
    now,        \* the clock, in seconds
    pc,         \* "idle", "put_sent" (blocked in urlopen) or "done"
    call,       \* the arguments of the call in progress
    locals,     \* upload_bytes' locals that live across the network call
    net,        \* the requests sent by the call in progress
    signed,     \* the signatures computed by the call in progress
    reads,      \* the local files read by the call in progress
    event,      \* the network event that ended the call's urlopen
    clock,      \* the clock readings taken by the call in progress
    result,     \* what the call returned or raised
    prev,       \* what the same call returned or raised the time before
    threads,    \* the frame of each thread that calls the library concurrently
    batch,      \* the frame of the batch_upload call in progress
    pure,       \* the helper function applied last, with its arguments and value
    fetch,      \* the frame of the fetch_multi_source call in progress
    pick        \* the frame of the pick_articles_balanced call in progress

\* the longest list of files handed to batch_upload
MaxFiles == 2

\* ------------------------------------------------------- program constants
DEFAULT_TIMEOUT == 60
MAX_PRESIGN_EXPIRES == 604800
REQUIRED_BUCKET_FIELDS == <<"endpoint", "access_key_id", "secret_access_key", "bucket_name">>
MaxErrorBody == 500
SecondsPerDay == 86400

\* ------------------------------------------------------------ Python values
None == <<"<None>">>
EmptyStr == <<>>
Truthy(v) == v # None /\ v # EmptyStr

RECURSIVE LStrip(_, _)
LStrip(s, chars) ==
    IF s # <<>> /\ Head(s) \in chars THEN LStrip(Tail(s), chars) ELSE s

RECURSIVE RStrip(_, _)
RStrip(s, chars) ==
    IF s # <<>> /\ s[Len(s)] \in chars THEN RStrip(SubSeq(s, 1, Len(s) - 1), chars) ELSE s

Strip(s, chars) == LStrip(RStrip(s, chars), chars)

RECURSIVE Flatten(_)
Flatten(ss) == IF ss = <<>> THEN <<>> ELSE Head(ss) \o Flatten(Tail(ss))

Whitespace == {" "}

\* index of the first token of s that is in chars, Len(s)+1 when there is none
RECURSIVE FirstIn(_, _, _)
FirstIn(s, chars, i) ==
    IF i > Len(s) THEN i
    ELSE IF s[i] \in chars THEN i ELSE FirstIn(s, chars, i + 1)

\* ---------------------------------------------------------------- _normalize_key
\* _normalize_key without the lstrip("/")
_normalize_key_nostrip(key) == [i \in 1..Len(key) |-> IF key[i] = "\\" THEN "/" ELSE key[i]]

_normalize_key(key) ==
    LStrip([i \in 1..Len(key) |-> IF key[i] = "\\" THEN "/" ELSE key[i]], {"/"})

\* ---------------------------------------------------------------- _join_url
\* _join_url without the rstrip("/") of the base
_join_url_concat(base, key) == base \o <<"/">> \o _normalize_key(key)

_join_url(base, key) == RStrip(base, {"/"}) \o <<"/">> \o _normalize_key(key)

\* ------------------------------------------------- _aws_encode_uri / quote
PercentEncode(tok) ==
    CASE tok = " "  -> "%20"
      [] tok = "/"  -> "%2F"
      [] tok = "\\" -> "%5C"
      [] tok = ":"  -> "%3A"
      [] tok = "?"  -> "%3F"
      [] OTHER      -> tok

Quote(value, safe) ==
    [i \in 1..Len(value) |->
        IF value[i] \in safe THEN value[i] ELSE PercentEncode(value[i])]

_aws_encode_uri(value) == Quote(value, {"/", "~"})

_aws_encode_query_param(value) == Quote(value, {"-", "_", ".", "~"})

\* ------------------------------------------------------------ clock formats
\* now.strftime("%Y%m%d") and now.strftime("%Y%m%dT%H%M%SZ") of a UTC instant
\* given in seconds; default_key_prefix formats the local date as %Y/%m/%d.
DateStamp(t) == <<ToString(t \div SecondsPerDay)>>

AmzDate(t) == DateStamp(t) \o <<"T", ToString(t % SecondsPerDay), "Z">>

default_key_prefix(t) == <<"Y", "/", "M", "/", ToString(t \div SecondsPerDay)>>

\* ------------------------------------------------------------ results
Return(v) == [kind |-> "return", type |-> "str", val |-> v]

Raise(type, msg) == [kind |-> "raise", type |-> type, val |-> msg]

R2UploadError(msg) == Raise("R2UploadError", msg)

NoResult == [kind |-> "none", type |-> "none", val |-> <<>>]

Returned(r) == r.kind = "return"

Raised(r) == r.kind = "raise"

\* ------------------------------------------------------- bucket records
BucketFields ==
    {"endpoint", "access_key_id", "secret_access_key", "bucket_name",
     "public_url", "region", "session_token"}

\* bucket_config.get(field): None when the field is absent
Get(rec, field) == rec[field]

\* bucket_config.get(field, default)
GetOr(rec, field, default) == IF rec[field] = None THEN default ELSE rec[field]

\* ---------------------------------------------------- resolve_bucket_config
Missing(bucket_config) ==
    SelectSeq(REQUIRED_BUCKET_FIELDS, LAMBDA f : ~Truthy(Get(bucket_config, f)))

\* resolve_bucket_config without the check of the required fields (lines 70-74)
resolve_bucket_config_nocheck(cfg, bucket) ==
    LET lookup(bucket_name) ==
            IF ~Truthy(bucket_name)
            THEN [ok |-> FALSE, name |-> None, rec |-> None,
                  err |-> <<"No bucket specified and no 'default' bucket in config">>]
            ELSE IF bucket_name \notin DOMAIN cfg.buckets
            THEN [ok |-> FALSE, name |-> bucket_name, rec |-> None,
                  err |-> <<"Bucket '">> \o bucket_name \o <<"' not found">>]
            ELSE [ok |-> TRUE, name |-> bucket_name, rec |-> cfg.buckets[bucket_name],
                  err |-> <<>>]
    IN  lookup(IF Truthy(bucket) THEN bucket ELSE cfg.default)

resolve_bucket_config(cfg, bucket) ==
    LET validate(bucket_name, bucket_config, missing) ==
            IF missing # <<>>
            THEN [ok |-> FALSE, name |-> bucket_name, rec |-> bucket_config,
                  err |-> <<"Bucket '">> \o bucket_name
                          \o <<"' missing required fields: ">> \o missing]
            ELSE [ok |-> TRUE, name |-> bucket_name, rec |-> bucket_config, err |-> <<>>]
        lookup(bucket_name) ==
            IF ~Truthy(bucket_name)
            THEN [ok |-> FALSE, name |-> None, rec |-> None,
                  err |-> <<"No bucket specified and no 'default' bucket in config">>]
            ELSE IF bucket_name \notin DOMAIN cfg.buckets
            THEN [ok |-> FALSE, name |-> bucket_name, rec |-> None,
                  err |-> <<"Bucket '">> \o bucket_name \o <<"' not found">>]
            ELSE validate(bucket_name, cfg.buckets[bucket_name],
                          Missing(cfg.buckets[bucket_name]))
    IN  lookup(IF Truthy(bucket) THEN bucket ELSE cfg.default)

\* ------------------------------------------------------ _normalize_endpoint
Schemes == {"http://", "https://"}

\* _normalize_endpoint that gives the host with the default port spelled out
_normalize_endpoint_port(endpoint) ==
    LET check(scheme, netloc, path, e2) ==
            IF netloc = <<>>
            THEN [ok |-> FALSE, endpoint |-> <<>>, host |-> <<>>,
                  err |-> <<"Invalid endpoint: ">> \o e2]
            ELSE IF path \notin {<<>>, <<"/">>}
            THEN [ok |-> FALSE, endpoint |-> <<>>, host |-> <<>>,
                  err |-> <<"Endpoint should not include a path. Use bucket_name/public_url instead.">>]
            ELSE [ok |-> TRUE, endpoint |-> <<scheme>> \o netloc,
                  host |-> netloc \o <<":443">>, err |-> <<>>]
        split(e2, rest, cut) ==
            check(Head(e2), SubSeq(rest, 1, cut - 1),
                  SubSeq(rest, cut, FirstIn(rest, {"?", "#"}, 1) - 1), e2)
        urlparse(e2) == split(e2, Tail(e2), FirstIn(Tail(e2), {"/", "?", "#"}, 1))
        prefix(e1) ==
            urlparse(IF e1 # <<>> /\ Head(e1) \in Schemes THEN e1 ELSE <<"https://">> \o e1)
    IN  prefix(RStrip(Strip(endpoint, Whitespace), {"/"}))

_normalize_endpoint(endpoint) ==
    LET check(scheme, netloc, path, e2) ==
            IF netloc = <<>>
            THEN [ok |-> FALSE, endpoint |-> <<>>, host |-> <<>>,
                  err |-> <<"Invalid endpoint: ">> \o e2]
            ELSE IF path \notin {<<>>, <<"/">>}
            THEN [ok |-> FALSE, endpoint |-> <<>>, host |-> <<>>,
                  err |-> <<"Endpoint should not include a path. Use bucket_name/public_url instead.">>]
            ELSE [ok |-> TRUE, endpoint |-> <<scheme>> \o netloc, host |-> netloc, err |-> <<>>]
        split(e2, rest, cut) ==
            check(Head(e2), SubSeq(rest, 1, cut - 1),
                  SubSeq(rest, cut, FirstIn(rest, {"?", "#"}, 1) - 1), e2)
        urlparse(e2) == split(e2, Tail(e2), FirstIn(Tail(e2), {"/", "?", "#"}, 1))
        prefix(e1) ==
            urlparse(IF e1 # <<>> /\ Head(e1) \in Schemes THEN e1 ELSE <<"https://">> \o e1)
    IN  prefix(RStrip(Strip(endpoint, Whitespace), {"/"}))

\* ------------------------------------------------------------ digests
\* hashlib.sha256(x).hexdigest() and hmac.new(key, msg, sha256): free
\* constructors over token sequences.
Sha256Hex(x) == <<"sha256(">> \o x \o <<")">>

sign(key, msg) == <<"hmac(">> \o key \o <<",">> \o msg \o <<")">>

\* get_signature_key that keys every stage with "AWS4" + secret
get_signature_key_rekeyed(secret, date_stamp, region, service) ==
    LET k_date == sign(<<"AWS4">> \o secret, date_stamp)
        k_region == sign(<<"AWS4">> \o secret, region)
        k_service == sign(<<"AWS4">> \o secret, service)
    IN  sign(<<"AWS4">> \o secret, <<"aws4_request">>)

get_signature_key(secret, date_stamp, region, service) ==
    LET k_date == sign(<<"AWS4">> \o secret, date_stamp)
        k_region == sign(k_date, region)
        k_service == sign(k_region, service)
        k_signing == sign(k_service, <<"aws4_request">>)
    IN  k_signing

\* ------------------------------------------------------- _validate_expires
\* _validate_expires with the upper bound excluded (>= for > at line 160)
_validate_expires_exclusive(expires) ==
    IF expires < 1 \/ expires >= MAX_PRESIGN_EXPIRES
    THEN [ok |-> FALSE, val |-> 0,
          err |-> <<"expires must be between 1 and ", ToString(MAX_PRESIGN_EXPIRES), " seconds">>]
    ELSE [ok |-> TRUE, val |-> expires, err |-> <<>>]

_validate_expires(expires) ==
    IF expires < 1 \/ expires > MAX_PRESIGN_EXPIRES
    THEN [ok |-> FALSE, val |-> 0,
          err |-> <<"expires must be between 1 and ", ToString(MAX_PRESIGN_EXPIRES), " seconds">>]
    ELSE [ok |-> TRUE, val |-> expires, err |-> <<>>]

\* -------------------------------------------------------- build_public_url
\* bucket_config[field] of an absent field raises KeyError
KeyError(field) == Raise("KeyError", <<field>>)

build_public_url(key, bucket_config) ==
    LET join(ep) ==
            IF ~ep.ok THEN R2UploadError(ep.err)
            ELSE IF Truthy(Get(bucket_config, "public_url"))
            THEN Return(_join_url(Get(bucket_config, "public_url"), key))
            ELSE IF bucket_config["bucket_name"] = None THEN KeyError("bucket_name")
            ELSE Return(_join_url(ep.endpoint \o <<"/">> \o bucket_config["bucket_name"], key))
    IN  IF bucket_config["endpoint"] = None THEN KeyError("endpoint")
        ELSE join(_normalize_endpoint(bucket_config["endpoint"]))

\* ------------------------------------------------------------ str.join
RECURSIVE Join(_, _)
Join(sep, parts) ==
    IF parts = <<>> THEN <<>>
    ELSE IF Len(parts) = 1 THEN Head(parts)
    ELSE Head(parts) \o sep \o Join(sep, Tail(parts))

\* sorted(params.items()): the query parameter names in byte-wise ascending
\* order ('e' < 'i', so Security-Token sorts before SignedHeaders)
SortedParamNames ==
    <<"X-Amz-Algorithm", "X-Amz-Credential", "X-Amz-Date", "X-Amz-Expires",
      "X-Amz-Security-Token", "X-Amz-SignedHeaders">>

\* SortedItems that takes the last two names in the other order (the order in
\* which lines 202-210 put them into the dict)
SortedItems_insertion(order, dict) ==
    SelectSeq([i \in 1..Len(order) |->
                  IF i = Len(order) - 1 THEN order[Len(order)]
                  ELSE IF i = Len(order) THEN order[Len(order) - 1] ELSE order[i]],
              LAMBDA k : k \in DOMAIN dict)

\* SortedItems that walks the names from the last to the first
SortedItems_reversed(order, dict) ==
    SelectSeq([i \in 1..Len(order) |-> order[Len(order) + 1 - i]], LAMBDA k : k \in DOMAIN dict)

SortedItems(order, dict) == SelectSeq(order, LAMBDA k : k \in DOMAIN dict)

CredentialScope(date_stamp, region) ==
    date_stamp \o <<"/">> \o region \o <<"/", "s3", "/", "aws4_request">>

StringToSign(amz_date, credential_scope, canonical_request) ==
    <<"AWS4-HMAC-SHA256", "\n">> \o amz_date \o <<"\n">> \o credential_scope
        \o <<"\n">> \o Sha256Hex(canonical_request)

\* -------------------------------------------------- generate_presigned_url
\* t is the reading of the UTC clock taken at line 195.  The result carries,
\* next to the value returned or the exception raised, the signature that
\* was computed (<<>> when the call fails before line 230).
generate_presigned_url(key0, bucket_config, expires0, t) ==
    LET failed(r) == [kind |-> r.kind, type |-> r.type, val |-> r.val, sig |-> <<>>]
        url(endpoint, bucket_name, key, canonical_query, signature) ==
            [kind |-> "return", type |-> "str",
             val |-> endpoint \o <<"/">> \o bucket_name \o <<"/">> \o _aws_encode_uri(key)
                     \o <<"?">> \o canonical_query
                     \o <<"&", "X-Amz-Signature", "=">> \o signature,
             sig |-> signature]
        signit(ep, key, bucket_name, region, canonical_query) ==
            url(ep.endpoint, bucket_name, key, canonical_query,
                sign(get_signature_key(bucket_config["secret_access_key"], DateStamp(t),
                                       region, <<"s3">>),
                     StringToSign(AmzDate(t), CredentialScope(DateStamp(t), region),
                        <<"GET", "\n">> \o <<"/">> \o bucket_name \o <<"/">> \o _aws_encode_uri(key)
                            \o <<"\n">> \o canonical_query \o <<"\n">>
                            \o <<"host:">> \o ep.host \o <<"\n", "\n">>
                            \o <<"host", "\n", "UNSIGNED-PAYLOAD">>)))
        query(params, names) ==
            Join(<<"&">>, [i \in 1..Len(names) |->
                _aws_encode_query_param(<<names[i]>>) \o <<"=">>
                    \o _aws_encode_query_param(params[names[i]])])
        sorted(params) == query(params, SortedItems(SortedParamNames, params))
        withtoken(base, session_token) ==
            sorted(IF Truthy(session_token)
                   THEN [n \in DOMAIN base \cup {"X-Amz-Security-Token"} |->
                           IF n = "X-Amz-Security-Token" THEN session_token ELSE base[n]]
                   ELSE base)
        params(expires, region) ==
            withtoken([n \in {"X-Amz-Algorithm", "X-Amz-Credential", "X-Amz-Date",
                              "X-Amz-Expires", "X-Amz-SignedHeaders"} |->
                         CASE n = "X-Amz-Algorithm" -> <<"AWS4-HMAC-SHA256">>
                           [] n = "X-Amz-Credential" ->
                                bucket_config["access_key_id"] \o <<"/">>
                                    \o CredentialScope(DateStamp(t), region)
                           [] n = "X-Amz-Date" -> AmzDate(t)
                           [] n = "X-Amz-Expires" -> <<ToString(expires)>>
                           [] n = "X-Amz-SignedHeaders" -> <<"host">>],
                      Get(bucket_config, "session_token"))
        fields(key, expires, ep, region) ==
            IF ~ep.ok THEN failed(R2UploadError(ep.err))
            ELSE IF bucket_config["access_key_id"] = None THEN failed(KeyError("access_key_id"))
            ELSE IF bucket_config["secret_access_key"] = None
            THEN failed(KeyError("secret_access_key"))
            ELSE IF bucket_config["bucket_name"] = None THEN failed(KeyError("bucket_name"))
            ELSE signit(ep, key, bucket_config["bucket_name"], region, params(expires, region))
        validated(key, ex) ==
            IF ~ex.ok THEN failed(R2UploadError(ex.err))
            ELSE IF bucket_config["endpoint"] = None THEN failed(KeyError("endpoint"))
            ELSE fields(key, ex.val, _normalize_endpoint(bucket_config["endpoint"]),
                        GetOr(bucket_config, "region", <<"auto">>))
    IN  validated(_normalize_key(key0), _validate_expires(expires0))

\* ------------------------------------------------------ _guess_content_type
\* A file extension is one token; os.path.splitext(name)[1] is the last token
\* of the name when that token is an extension.
ExtTokens == {".jpg", ".png", ".yml", ".bin", ".xyz"}

SplitExt(name) ==
    IF name # <<>> /\ name[Len(name)] \in ExtTokens /\ Len(name) > 1
          /\ name[Len(name) - 1] # "/"
    THEN name[Len(name)] ELSE ""

\* The tables mimetypes can have loaded: the one built into the standard
\* library, or that one extended by the platform's files (/etc/mime.types and
\* the like, which mimetypes.init reads where they exist).
MimeTables == {"builtin", "platform"}

\* mimetypes.guess_type(name)[0]: None when the extension is not in the table
MimeGuess(name) ==
    CASE SplitExt(name) = ".jpg" -> <<"image/jpeg">>
      [] SplitExt(name) = ".png" -> <<"image/png">>
      [] SplitExt(name) = ".bin" -> <<"application/octet-stream">>
      [] SplitExt(name) = ".xyz" /\ mimedb = "platform" -> <<"chemical/x-xyz">>
      [] OTHER -> None

Fallback(ext) ==
    CASE ext = ".jpg" -> <<"image/jpeg">>
      [] ext = ".png" -> <<"image/png">>
      [] ext = ".yml" -> <<"text/yaml">>
      [] OTHER -> <<"application/octet-stream">>

_guess_content_type(name, override) ==
    IF Truthy(override) THEN override
    ELSE IF MimeGuess(name) # None THEN MimeGuess(name)
    ELSE Fallback(SplitExt(name))

\* -------------------------------------------------- _normalize_header_value
\* " ".join(value.strip().split()): runs of whitespace collapse to one space
RECURSIVE CollapseSpaces(_)
CollapseSpaces(s) ==
    IF Len(s) < 2 THEN s
    ELSE IF s[1] \in Whitespace /\ s[2] \in Whitespace THEN CollapseSpaces(Tail(s))
    ELSE <<IF s[1] \in Whitespace THEN " " ELSE s[1]>> \o CollapseSpaces(Tail(s))

_normalize_header_value(value) == CollapseSpaces(Strip(value, Whitespace))

\* ------------------------------------------------------- byte order of names
\* the characters of the query parameter names and of the header names
Spell(name) ==
    CASE name = "X-Amz-Algorithm" ->
            <<"X", "-", "A", "m", "z", "-", "A", "l", "g", "o", "r", "i", "t", "h", "m">>
      [] name = "X-Amz-Credential" ->
            <<"X", "-", "A", "m", "z", "-", "C", "r", "e", "d", "e", "n", "t", "i", "a", "l">>
      [] name = "X-Amz-Date" -> <<"X", "-", "A", "m", "z", "-", "D", "a", "t", "e">>
      [] name = "X-Amz-Expires" ->
            <<"X", "-", "A", "m", "z", "-", "E", "x", "p", "i", "r", "e", "s">>
      [] name = "X-Amz-Security-Token" ->
            <<"X", "-", "A", "m", "z", "-", "S", "e", "c", "u", "r", "i", "t", "y", "-",
              "T", "o", "k", "e", "n">>
      [] name = "X-Amz-SignedHeaders" ->
            <<"X", "-", "A", "m", "z", "-", "S", "i", "g", "n", "e", "d", "H", "e", "a",
              "d", "e", "r", "s">>
      [] name = "X-Amz-Signature" ->
            <<"X", "-", "A", "m", "z", "-", "S", "i", "g", "n", "a", "t", "u", "r", "e">>
      [] name = "cache-control" ->
            <<"c", "a", "c", "h", "e", "-", "c", "o", "n", "t", "r", "o", "l">>
      [] name = "content-disposition" ->
            <<"c", "o", "n", "t", "e", "n", "t", "-", "d", "i", "s", "p", "o", "s", "i",
              "t", "i", "o", "n">>
      [] name = "content-type" ->
            <<"c", "o", "n", "t", "e", "n", "t", "-", "t", "y", "p", "e">>
      [] name = "host" -> <<"h", "o", "s", "t">>
      [] name = "x-amz-content-sha256" ->
            <<"x", "-", "a", "m", "z", "-", "c", "o", "n", "t", "e", "n", "t", "-", "s",
              "h", "a", "2", "5", "6">>
      [] name = "x-amz-date" -> <<"x", "-", "a", "m", "z", "-", "d", "a", "t", "e">>
      [] name = "x-amz-security-token" ->
            <<"x", "-", "a", "m", "z", "-", "s", "e", "c", "u", "r", "i", "t", "y", "-",
              "t", "o", "k", "e", "n">>

Digits == <<"0", "1", "2", "3", "4", "5", "6", "7", "8", "9">>

Upper ==
    <<"A", "B", "C", "D", "E", "F", "G", "H", "I", "J", "K", "L", "M", "N", "O", "P", "Q",
      "R", "S", "T", "U", "V", "W", "X", "Y", "Z">>

Lower ==
    <<"a", "b", "c", "d", "e", "f", "g", "h", "i", "j", "k", "l", "m", "n", "o", "p", "q",
      "r", "s", "t", "u", "v", "w", "x", "y", "z">>

IndexOf(c, s) == CHOOSE i \in 1..Len(s) : s[i] = c

\* the ASCII code of a character
Ord(c) ==
    IF c = "-" THEN 45
    ELSE IF \E i \in 1..10 : Digits[i] = c THEN 47 + IndexOf(c, Digits)
    ELSE IF \E i \in 1..26 : Upper[i] = c THEN 64 + IndexOf(c, Upper)
    ELSE 96 + IndexOf(c, Lower)

\* a sorts strictly before b, byte by byte
BytesLess(a, b) ==
    \E i \in 1..(Len(b)) :
        /\ \A j \in 1..(i - 1) : j <= Len(a) /\ a[j] = b[j]
        /\ i > Len(a) \/ Ord(a[i]) < Ord(b[i])

\* the names the code sorts: query parameters and headers
SortedNames ==
    {"X-Amz-Algorithm", "X-Amz-Credential", "X-Amz-Date", "X-Amz-Expires",
     "X-Amz-Security-Token", "X-Amz-SignedHeaders", "X-Amz-Signature",
     "cache-control", "content-disposition", "content-type", "host",
     "x-amz-content-sha256", "x-amz-date", "x-amz-security-token"}

\* the pairs of names of which the first sorts strictly before the second
NameOrder == {p \in SortedNames \X SortedNames : BytesLess(Spell(p[1]), Spell(p[2]))}

\* SortByName that leaves the items in the order of insertion
SortByName_unsorted(items) == items

\* sorted(headers.items()) for a dict given as its items in insertion order:
\* the names are distinct, so the items are ordered by name, byte by byte
RECURSIVE SortByName(_)
SortByName(items) ==
    LET RECURSIVE insert(_, _)
        insert(x, s) ==
            IF s = <<>> THEN <<x>>
            ELSE IF <<x[1], Head(s)[1]>> \in NameOrder THEN <<x>> \o s
            ELSE <<Head(s)>> \o insert(x, Tail(s))
    IN  IF items = <<>> THEN <<>> ELSE insert(Head(items), SortByName(Tail(items)))

\* lines 290-292: the canonical header block
CanonicalHeaders(items) ==
    LET block(sorted) ==
            Flatten([i \in 1..Len(sorted) |->
                <<sorted[i][1], ":">> \o _normalize_header_value(sorted[i][2]) \o <<"\n">>])
    IN  block(SortByName(items))

\* line 293: the signed-header list
SignedHeaderList(items) ==
    LET list(sorted) == Join(<<";">>, [i \in 1..Len(sorted) |-> <<sorted[i][1]>>])
    IN  list(SortByName(items))

\* the header names in the order lines 277-288 insert them
InsertionOrder ==
    <<"host", "x-amz-content-sha256", "x-amz-date", "content-type", "cache-control",
      "content-disposition", "x-amz-security-token">>

\* HeaderItems that leaves the session token out of what is signed
HeaderItems_tokenless(headers) ==
    LET names == SelectSeq(InsertionOrder,
                           LAMBDA n : n \in DOMAIN headers /\ n # "x-amz-security-token")
    IN  [i \in 1..Len(names) |-> <<names[i], headers[names[i]]>>]

\* the items of the headers dict, in insertion order
HeaderItems(headers) ==
    LET names == SelectSeq(InsertionOrder, LAMBDA n : n \in DOMAIN headers)
    IN  [i \in 1..Len(names) |-> <<names[i], headers[names[i]]>>]

\* sorted(headers.items()): the header names in byte-wise ascending order
SortedHeaderNames ==
    <<"cache-control", "content-disposition", "content-type", "host",
      "x-amz-content-sha256", "x-amz-date", "x-amz-security-token">>

\* ------------------------------------------------------------ upload_bytes
\* Lines 254-326: everything up to the PUT request object.  a is the record of
\* the call's arguments, t the clock reading of line 271 (also used for the
\* default key's date), u the uuid4 hex prefix of line 260.
\* Result: ok = FALSE with the exception in res, or ok = TRUE with the request
\* and the locals that the code after the network call uses.
upload_bytes_request(a, cfg, t, u) ==
    LET noreq == [url |-> <<>>, method |-> "", data |-> <<>>, timeout |-> 0,
                  headers |-> <<>>, signature |-> <<>>]
        nolocals == [key |-> <<>>, bucket_config |-> None, make_public |-> FALSE, expires |-> 0]
        failed(err) ==
            [ok |-> FALSE, res |-> R2UploadError(err), req |-> noreq, locals |-> nolocals]
        request(url, headers, auth_header, signature, key, bucket_config) ==
            [ok |-> TRUE, res |-> NoResult,
             req |-> [url |-> url, method |-> "PUT", data |-> a.data, timeout |-> a.timeout,
                      headers |-> [n \in DOMAIN headers \cup {"Authorization"} |->
                                     IF n = "Authorization" THEN auth_header ELSE headers[n]],
                      signature |-> signature],
             locals |-> [key |-> key, bucket_config |-> bucket_config,
                         make_public |-> a.make_public, expires |-> a.expires]]
        authorize(url, headers, signed_headers, credential_scope, signature, key, bucket_config) ==
            request(url, headers,
                    <<"AWS4-HMAC-SHA256 ", "Credential=">> \o bucket_config["access_key_id"]
                        \o <<"/">> \o credential_scope
                        \o <<", ", "SignedHeaders=">> \o signed_headers
                        \o <<", ", "Signature=">> \o signature,
                    signature, key, bucket_config)
        signit(url, headers, canonical_headers, signed_headers, canonical_uri, payload_hash,
               region, key, bucket_config) ==
            authorize(url, headers, signed_headers, CredentialScope(DateStamp(t), region),
                      sign(get_signature_key(bucket_config["secret_access_key"], DateStamp(t),
                                             region, <<"s3">>),
                           StringToSign(AmzDate(t), CredentialScope(DateStamp(t), region),
                              <<"PUT", "\n">> \o canonical_uri \o <<"\n", "\n">>
                                  \o canonical_headers \o <<"\n">> \o signed_headers
                                  \o <<"\n">> \o payload_hash)),
                      key, bucket_config)
        canonical(headers, items, endpoint, bucket_name, key, bucket_config) ==
            signit(endpoint \o <<"/">> \o bucket_name \o <<"/">> \o _aws_encode_uri(key),
                   headers,
                   CanonicalHeaders(items),
                   SignedHeaderList(items),
                   <<"/">> \o bucket_name \o <<"/">> \o _aws_encode_uri(key),
                   Sha256Hex(a.data),
                   GetOr(bucket_config, "region", <<"auto">>),
                   key, bucket_config)
        sorted(headers, endpoint, bucket_name, key, bucket_config) ==
            canonical(headers, HeaderItems(headers),
                      endpoint, bucket_name, key, bucket_config)
        build(ep, bucket_name, key, bucket_config, session_token) ==
            sorted([n \in {"host", "x-amz-content-sha256", "x-amz-date", "content-type"}
                       \cup {m \in {"cache-control", "content-disposition",
                                    "x-amz-security-token"} :
                               CASE m = "cache-control" -> Truthy(a.cache_control)
                                 [] m = "content-disposition" -> Truthy(a.content_disposition)
                                 [] m = "x-amz-security-token" -> Truthy(session_token)} |->
                      CASE n = "host" -> ep.host
                        [] n = "x-amz-content-sha256" -> Sha256Hex(a.data)
                        [] n = "x-amz-date" -> AmzDate(t)
                        [] n = "content-type" -> _guess_content_type(key, a.content_type)
                        [] n = "cache-control" -> a.cache_control
                        [] n = "content-disposition" -> a.content_disposition
                        [] n = "x-amz-security-token" -> session_token],
                   ep.endpoint, bucket_name, key, bucket_config)
        normalized(bucket_name, bucket_config, key, ep) ==
            IF ~ep.ok THEN failed(ep.err)
            ELSE build(ep, bucket_name, key, bucket_config, Get(bucket_config, "session_token"))
        resolved(rb) ==
            IF ~rb.ok THEN failed(rb.err)
            ELSE normalized(rb.name, rb.rec,
                            _normalize_key(
                               IF a.key = None
                               THEN default_key_prefix(t) \o <<"/", "upload-", u, ".bin">>
                               ELSE a.key),
                            _normalize_endpoint(rb.rec["endpoint"]))
    IN  resolved(resolve_bucket_config(cfg, a.bucket))

\* ------------------------------------------------------ urllib.request.urlopen
\* What the standard library's urlopen(req, timeout=...) does with a network
\* event for a PUT: a 2xx status is returned as the response; any other status
\* (redirects included, which are not followed for PUT) raises HTTPError; a
\* failure while connecting or sending is wrapped into URLError; a failure
\* while waiting for the response (getresponse) propagates unwrapped.
urlopen(ev) ==
    CASE ev.kind = "status" /\ ev.code >= 200 /\ ev.code < 300 ->
            [kind |-> "response", code |-> ev.code, reason |-> ev.reason,
             body |-> ev.body, readable |-> ev.readable]
      [] ev.kind = "status" /\ ~(ev.code >= 200 /\ ev.code < 300) ->
            [kind |-> "HTTPError", code |-> ev.code, reason |-> ev.reason,
             body |-> ev.body, readable |-> ev.readable]
      [] ev.kind \in {"refused", "timeout_connect", "timeout_send"} ->
            [kind |-> "URLError", code |-> 0,
             reason |-> IF ev.kind = "refused" THEN <<"Connection refused">> ELSE <<"timed out">>,
             body |-> <<>>, readable |-> FALSE]
      [] ev.kind = "timeout_response" ->
            [kind |-> "TimeoutError", code |-> 0, reason |-> <<"timed out">>,
             body |-> <<>>, readable |-> FALSE]
      [] ev.kind = "disconnect_response" ->
            [kind |-> "RemoteDisconnected", code |-> 0,
             reason |-> <<"Remote end closed connection without response">>,
             body |-> <<>>, readable |-> FALSE]

\* bytes.decode("utf-8", errors="ignore"): undecodable bytes are dropped
Decode(body) == SelectSeq(body, LAMBDA b : b # "<invalid-byte>")

Truncate(s, n) == SubSeq(s, 1, IF Len(s) < n THEN Len(s) ELSE n)

\* upload_bytes_finish that ignores make_public and always presigns
upload_bytes_finish_presign(frame, out, t) ==
    LET body == IF out.readable THEN Decode(out.body) ELSE <<>>
        message == <<"HTTP ", ToString(out.code), ": ">> \o out.reason
        plain(r) == [kind |-> r.kind, type |-> r.type, val |-> r.val, sig |-> <<>>]
    IN  CASE out.kind = "response" ->
                IF out.code \notin {200, 201, 204}
                THEN plain(R2UploadError(<<"Upload failed: HTTP ", ToString(out.code)>>))
                ELSE generate_presigned_url(frame.key, frame.bucket_config, frame.expires, t)
          [] out.kind = "HTTPError" ->
                IF body # <<>>
                THEN plain(R2UploadError(message \o <<" - ">>
                            \o Truncate(Strip(body, Whitespace), MaxErrorBody)))
                ELSE plain(R2UploadError(message))
          [] out.kind = "URLError" ->
                plain(R2UploadError(<<"Network error: ">> \o out.reason))
          [] OTHER -> plain(Raise(out.kind, out.reason))

\* Lines 328-348: what upload_bytes does with the outcome of urlopen.  t is the
\* clock reading at that moment (generate_presigned_url reads the clock anew).
upload_bytes_finish(frame, out, t) ==
    LET body == IF out.readable THEN Decode(out.body) ELSE <<>>
        message == <<"HTTP ", ToString(out.code), ": ">> \o out.reason
        plain(r) == [kind |-> r.kind, type |-> r.type, val |-> r.val, sig |-> <<>>]
    IN  CASE out.kind = "response" ->
                IF out.code \notin {200, 201, 204}
                THEN plain(R2UploadError(<<"Upload failed: HTTP ", ToString(out.code)>>))
                ELSE IF frame.make_public
                THEN plain(build_public_url(frame.key, frame.bucket_config))
                ELSE generate_presigned_url(frame.key, frame.bucket_config, frame.expires, t)
          [] out.kind = "HTTPError" ->
                IF body # <<>>
                THEN plain(R2UploadError(message \o <<" - ">>
                            \o Truncate(Strip(body, Whitespace), MaxErrorBody)))
                ELSE plain(R2UploadError(message))
          [] out.kind = "URLError" ->
                plain(R2UploadError(<<"Network error: ">> \o out.reason))
          [] OTHER -> plain(Raise(out.kind, out.reason))

\* ------------------------------------------------------------ upload_file
LastSlash(path) ==
    LET idx == {i \in 1..Len(path) : path[i] = "/"}
    IN  IF idx = {} THEN 0 ELSE CHOOSE i \in idx : \A j \in idx : j <= i

Basename(path) == SubSeq(path, LastSlash(path) + 1, Len(path))

\* the local file system: the paths that exist
Files == {<<"d", "/", "f", ".png">>, <<"g">>}

FileData(path) == <<"bytes of ">> \o path

\* upload_file without the check of line 374
upload_file_prepare_nocheck(a, t) ==
    LET join(prefix, filename) ==
            IF prefix # <<>> THEN prefix \o <<"/">> \o filename ELSE filename
        key == IF a.key = None
               THEN join(Strip(IF a.key_prefix = None THEN default_key_prefix(t)
                               ELSE a.key_prefix, {"/"}),
                         Basename(a.local_path))
               ELSE a.key
    IN  IF a.local_path \notin Files
        THEN [ok |-> FALSE, read |-> FALSE, args |-> a,
              res |-> Raise("FileNotFoundError", a.local_path)]
        ELSE [ok |-> TRUE, read |-> TRUE, res |-> NoResult,
              args |-> [a EXCEPT !.key = key,
                                 !.data = FileData(a.local_path),
                                 !.content_type = _guess_content_type(a.local_path, a.content_type)]]

\* upload_file that stores a file without key under its bare name
upload_file_prepare_bare(a, t) ==
    LET key == IF a.key = None THEN Basename(a.local_path) ELSE a.key
    IN  IF Truthy(a.key) /\ Truthy(a.key_prefix)
        THEN [ok |-> FALSE, read |-> FALSE, args |-> a,
              res |-> R2UploadError(<<"Provide either key or key_prefix, not both">>)]
        ELSE IF a.local_path \notin Files
        THEN [ok |-> FALSE, read |-> FALSE, args |-> a,
              res |-> Raise("FileNotFoundError", a.local_path)]
        ELSE [ok |-> TRUE, read |-> TRUE, res |-> NoResult,
              args |-> [a EXCEPT !.key = key,
                                 !.data = FileData(a.local_path),
                                 !.content_type = _guess_content_type(a.local_path, a.content_type)]]

\* Lines 374-386: the checks and the file read before upload_bytes is called.
\* Result: ok = FALSE with the exception, or the arguments of upload_bytes;
\* read tells whether the local file was opened and read.
upload_file_prepare(a, t) ==
    LET join(prefix, filename) ==
            IF prefix # <<>> THEN prefix \o <<"/">> \o filename ELSE filename
        key == IF a.key = None
               THEN join(Strip(IF a.key_prefix = None THEN default_key_prefix(t)
                               ELSE a.key_prefix, {"/"}),
                         Basename(a.local_path))
               ELSE a.key
    IN  IF Truthy(a.key) /\ Truthy(a.key_prefix)
        THEN [ok |-> FALSE, read |-> FALSE, args |-> a,
              res |-> R2UploadError(<<"Provide either key or key_prefix, not both">>)]
        ELSE IF a.local_path \notin Files
        THEN [ok |-> FALSE, read |-> FALSE, args |-> a,
              res |-> Raise("FileNotFoundError", a.local_path)]
        ELSE [ok |-> TRUE, read |-> TRUE, res |-> NoResult,
              args |-> [a EXCEPT !.key = key,
                                 !.data = FileData(a.local_path),
                                 !.content_type = _guess_content_type(a.local_path, a.content_type)]]

\* =================================================================== inputs
RECURSIVE SeqsUpTo(_, _)
SeqsUpTo(S, n) ==
    IF n = 0 THEN {<<>>}
    ELSE LET shorter == SeqsUpTo(S, n - 1)
         IN  shorter \cup {Append(q, c) : q \in shorter, c \in S}

KeyChars == {"a", "/", "\\"}

Keys == SeqsUpTo(KeyChars, MaxKeyLen) \cup {<<" ", "?">>}

ExpiresValues == {0, 1, 300, MAX_PRESIGN_EXPIRES, MAX_PRESIGN_EXPIRES + 1}

\* the keyword arguments of upload_bytes: the defaults, and combinations of
\* an expires value, a timeout and the optional headers (absent, empty, given)
HeaderText == <<" ", "x", " ", " ", "y">>

Options ==
    {[expires |-> 300, timeout |-> DEFAULT_TIMEOUT, text |-> None],
     [expires |-> 1, timeout |-> 5, text |-> HeaderText],
     [expires |-> 0, timeout |-> 5, text |-> None],
     [expires |-> MAX_PRESIGN_EXPIRES, timeout |-> 5, text |-> EmptyStr],
     [expires |-> MAX_PRESIGN_EXPIRES + 1, timeout |-> DEFAULT_TIMEOUT, text |-> HeaderText]}

Uuids == {"1a2b3c4d", "deadbeef"}

Rec(endpoint, ak, sk, name, public_url, region, token) ==
    [f \in BucketFields |->
        CASE f = "endpoint" -> endpoint
          [] f = "access_key_id" -> ak
          [] f = "secret_access_key" -> sk
          [] f = "bucket_name" -> name
          [] f = "public_url" -> public_url
          [] f = "region" -> region
          [] f = "session_token" -> token]

GoodMin == Rec(<<"https://", "h">>, <<"AK">>, <<"SK">>, <<"main">>, None, None, None)

GoodReal == Rec(<<"http://", "h">>, <<"AK">>, <<"SK">>, <<"real">>, None, None, <<"tok", "/", "en">>)

GoodFull ==
    Rec(<<" ", "h", "/">>, <<"AK">>, <<"SK">>, <<"main">>, <<"https://", "cdn", "/">>,
        <<"us-east-1">>, None)

NoSecret == Rec(<<"https://", "h">>, <<"AK">>, None, <<"main">>, None, None, None)

EmptyName == Rec(<<"https://", "h">>, <<"AK">>, <<"SK">>, <<>>, None, None, None)

PathEndpoint == Rec(<<"https://", "h", "/", "p">>, <<"AK">>, <<"SK">>, <<"main">>, None, None, None)

NoHost == Rec(<<" ">>, <<"AK">>, <<"SK">>, <<"main">>, None, None, None)

BucketRecords == {GoodMin, GoodReal, GoodFull, NoSecret, EmptyName, PathEndpoint, NoHost}

Buckets(main, alias) == [n \in {<<"main">>, <<"alias">>} |-> IF n = <<"main">> THEN main ELSE alias]

Configs ==
    {[default |-> d, buckets |-> b] :
        d \in {None, <<"main">>},
        b \in {Buckets(GoodMin, GoodReal), Buckets(GoodFull, PathEndpoint),
               Buckets(NoSecret, EmptyName),
               [n \in {<<"main">>} |-> NoHost]}}

BucketArgs == {None, <<"alias">>, <<"nope">>}

LocalPaths == Files \cup {<<"missing">>}

NoArgs ==
    [op |-> "none", data |-> <<>>, key |-> None, bucket |-> None, make_public |-> FALSE,
     expires |-> 300, timeout |-> DEFAULT_TIMEOUT, content_type |-> None,
     cache_control |-> None, content_disposition |-> None,
     local_path |-> None, key_prefix |-> None, rec |-> None]

NoLocals == [key |-> <<>>, bucket_config |-> None, make_public |-> FALSE, expires |-> 0]

NoEvent == [kind |-> "none", code |-> 0, reason |-> <<>>, body |-> <<>>, readable |-> FALSE]

\* the bodies a server may send with an error status for request req
ErrorBodies(req) ==
    {<<>>, <<" ", "denied", "<invalid-byte>", " ">>,
     <<"<SignatureProvided>">> \o req.signature \o <<"</SignatureProvided>">>,
     [i \in 1..(MaxErrorBody + 1) |-> "x"]}

NetEvents(req) ==
    {[kind |-> "status", code |-> c, reason |-> <<"OK">>, body |-> <<>>, readable |-> TRUE] :
        c \in {200, 201, 202, 204, 206}}
    \cup {[kind |-> "status", code |-> 403, reason |-> <<"Denied">>, body |-> b, readable |-> TRUE] :
        b \in ErrorBodies(req)}
    \cup {[kind |-> "status", code |-> 307, reason |-> <<"Moved">>, body |-> <<>>, readable |-> TRUE],
          [kind |-> "status", code |-> 500, reason |-> <<"Error">>,
           body |-> <<"half">>, readable |-> FALSE]}
    \cup {[kind |-> k, code |-> 0, reason |-> <<>>, body |-> <<>>, readable |-> FALSE] :
        k \in {"refused", "timeout_connect", "timeout_send", "timeout_response",
               "disconnect_response"}}

\* ------------------------------------------------------------------ threads
Threads == {1, 2}

NoRequest ==
    [url |-> <<>>, method |-> "", data |-> <<>>, timeout |-> 0,
     headers |-> <<>>, signature |-> <<>>]

\* a thread's frame: where it is in its call, the call's arguments, the locals
\* of the call (the resolved bucket, the request, what is kept for the code
\* after urlopen), the clock readings it took and the network event it got
IdleFrame ==
    [pc |-> "idle", call |-> NoArgs, name |-> None, rec |-> None, req |-> NoRequest,
     locals |-> NoLocals, t0 |-> 0, t1 |-> 0, ev |-> NoEvent, result |-> NoResult]

\* the calls the threads make
ThreadCalls ==
    {[NoArgs EXCEPT !.op = "upload_bytes", !.data = <<"d">>, !.key = key, !.bucket = bucket,
                    !.make_public = make_public] :
        key \in {<<"a">>, <<"\\", "b">>}, bucket \in {None, <<"alias">>},
        make_public \in BOOLEAN}
    \cup {[NoArgs EXCEPT !.op = "generate_presigned_url", !.key = key, !.rec = GoodReal] :
        key \in {<<"a">>, <<"\\", "b">>}}
    \cup {[NoArgs EXCEPT !.op = "build_public_url", !.key = key, !.rec = GoodMin] :
        key \in {<<"a">>, <<"\\", "b">>}}

ThreadConfigs ==
    {c \in Configs : c.buckets = Buckets(GoodMin, GoodReal) /\ c.default # None}

ThreadEvents(req) ==
    {ev \in NetEvents(req) : \/ ev.kind = "timeout_response"
                             \/ ev.kind = "status" /\ ev.code = 200
                             \/ ev.kind = "status" /\ ev.code = 403 /\ ev.body = <<>>}

ThreadUuid == "1a2b3c4d"

\* -------------------------------------------------------------------- batch
\* the frame of a batch_upload call: its arguments, the loop index (1-based),
\* the urls list, the request in flight with the locals upload_bytes keeps,
\* and the log of the PUTs sent and the uploads returned
IdleBatch ==
    [pc |-> "idle", files |-> <<>>, key_prefix |-> <<>>, bucket |-> None,
     make_public |-> FALSE, i |-> 0, urls |-> <<>>, req |-> NoRequest, locals |-> NoLocals,
     log |-> <<>>, result |-> NoResult]

BatchPaths == Files \cup {<<"missing">>}

BatchFiles == SeqsUpTo(BatchPaths, MaxFiles)

\* ------------------------------------------------------------------ helpers
NoApplication == [fn |-> "none", args |-> <<>>, out |-> <<>>]

Secrets == {<<"SK">>, <<"S", "2">>, <<>>}

DateStamps == {<<"0">>, <<"1">>, <<"19700102">>}

Regions == {<<"auto">>, <<"us-east-1">>, <<>>}

Services == {<<"s3">>, <<"ec2">>}

\* ------------------------------------------------------------------ news
\* the frame of a fetch_multi_source call (src/tech-news/scripts/fetch_news.py):
\* its arguments, the pool size, per submitted future its state ("pending",
\* "finished", "collected") and its outcome, the results and errors dicts,
\* and the list returned
IdleFetch ==
    [pc |-> "idle", sources |-> <<>>, max_workers |-> 0, state |-> <<>>, outcome |-> <<>>,
     results |-> <<>>, errors |-> <<>>, out |-> <<>>]

\* the frame of a pick_articles_balanced call
\* (src/tech-news-blog/scripts/generate.py): its arguments, the position in
\* the code ("first": the loop of lines 126-130, "while": line 134, "pass": the
\* loop of lines 136-141), the locals (k is the place in source_order of the
\* running for loop) and the list returned
IdlePick ==
    [pc |-> "idle", articles |-> <<>>, limit |-> 0, per_source |-> 0, buckets |-> <<>>,
     source_order |-> <<>>, picked |-> <<>>, k |-> 0, i |-> 0, progressed |-> FALSE,
     out |-> <<>>]

\* ==================================================================== state
vars == <<mimedb, config, now, pc, call, locals, net, signed, reads, event, clock, result, prev, threads, batch, pure, fetch, pick>>

\* no call is in progress
Idle ==
    /\ now = 0
    /\ pc = "idle"
    /\ call = NoArgs
    /\ locals = NoLocals
    /\ net = <<>>
    /\ signed = <<>>
    /\ reads = <<>>
    /\ event = NoEvent
    /\ clock = <<>>
    /\ result = NoResult
    /\ prev = NoResult
    /\ threads = [t \in Threads |-> IdleFrame]
    /\ batch = IdleBatch
    /\ pure = NoApplication
    /\ fetch = IdleFetch
    /\ pick = IdlePick

\* The calls of Next hand the library no name whose type differs between the
\* MIME tables (keys without extension, .png files, the default .bin key), so
\* they are run on the platform's table; SpecPure runs on both.
Init ==
    /\ mimedb = "platform"
    /\ config \in Configs
    /\ Idle

\* upload_bytes up to the point where it blocks in urlopen
StartUpload(a, u) ==
    LET start(r) ==
            IF r.ok
            THEN /\ pc' = "put_sent"
                 /\ clock' = Append(clock, now)
                 /\ locals' = r.locals
                 /\ net' = Append(net, r.req)
                 /\ signed' = Append(signed, r.req.signature)
                 /\ result' = NoResult
            ELSE /\ pc' = "done"
                 /\ clock' = clock
                 /\ locals' = NoLocals
                 /\ net' = net
                 /\ signed' = signed
                 /\ result' = r.res
    IN  start(upload_bytes_request(a, config, now, u))

UploadBytes ==
    /\ pc = "idle"
    /\ \E key \in Keys \cup {None}, bucket \in BucketArgs, make_public \in BOOLEAN,
          o \in Options, u \in Uuids :
          /\ key = None \/ u = "1a2b3c4d"
          /\ LET a == [NoArgs EXCEPT !.op = "upload_bytes", !.data = <<"d">>, !.key = key,
                          !.bucket = bucket, !.make_public = make_public,
                          !.expires = o.expires, !.timeout = o.timeout,
                          !.content_type = o.text, !.cache_control = o.text,
                          !.content_disposition = o.text]
             IN  /\ call' = a
                 /\ StartUpload(a, u)
    /\ UNCHANGED <<mimedb, config, now, reads, event, prev, threads, batch, pure, fetch, pick>>

UploadFile ==
    /\ pc = "idle"
    /\ \E local_path \in LocalPaths, key \in {None, <<>>, <<"a">>},
          key_prefix \in {None, <<>>, <<"/", "p", "/">>}, bucket \in BucketArgs,
          make_public \in BOOLEAN :
          LET run(a, p) ==
                  /\ call' = a
                  /\ reads' = IF p.read THEN Append(reads, local_path) ELSE reads
                  /\ IF p.ok
                     THEN StartUpload(p.args, "1a2b3c4d")
                     ELSE /\ pc' = "done"
                          /\ result' = p.res
                          /\ UNCHANGED <<locals, net, signed, clock>>
              prepare(a) == run(a, upload_file_prepare(a, now))
          IN  prepare([NoArgs EXCEPT !.op = "upload_file", !.local_path = local_path,
                          !.key = key, !.key_prefix = key_prefix, !.bucket = bucket,
                          !.make_public = make_public])
    /\ UNCHANGED <<mimedb, config, now, event, prev, threads, batch, pure, fetch, pick>>

\* UrlopenReturns that sends the request again after a failure
UrlopenReturns_retry ==
    /\ pc = "put_sent"
    /\ \E ev \in NetEvents(net[Len(net)]) :
          LET finish(r) ==
                  /\ event' = ev
                  /\ IF r.kind = "raise" /\ Len(net) < 2
                     THEN /\ net' = Append(net, net[Len(net)])
                          /\ pc' = "put_sent"
                          /\ UNCHANGED <<result, signed, clock>>
                     ELSE /\ net' = net
                          /\ pc' = "done"
                          /\ result' = [kind |-> r.kind, type |-> r.type, val |-> r.val]
                          /\ signed' = IF r.sig # <<>> THEN Append(signed, r.sig) ELSE signed
                          /\ clock' = IF r.sig # <<>> THEN Append(clock, now) ELSE clock
          IN  finish(upload_bytes_finish(locals, urlopen(ev), now))
    /\ UNCHANGED <<mimedb, config, now, call, locals, reads, prev, threads, batch, pure, fetch, pick>>

\* UrlopenReturns that writes the default region into the bucket record it used
\* (bucket_config.setdefault("region", "auto"))
UrlopenReturns_setdefault ==
    /\ pc = "put_sent"
    /\ \E ev \in NetEvents(net[Len(net)]) :
          LET finish(r) ==
                  /\ event' = ev
                  /\ result' = [kind |-> r.kind, type |-> r.type, val |-> r.val]
                  /\ signed' = IF r.sig # <<>> THEN Append(signed, r.sig) ELSE signed
                  /\ clock' = IF r.sig # <<>> THEN Append(clock, now) ELSE clock
          IN  finish(upload_bytes_finish(locals, urlopen(ev), now))
    /\ pc' = "done"
    /\ config' =
          [config EXCEPT !.buckets =
              [n \in DOMAIN config.buckets |->
                  IF config.buckets[n] = locals.bucket_config
                  THEN [locals.bucket_config EXCEPT
                           !["region"] = GetOr(locals.bucket_config, "region", <<"auto">>)]
                  ELSE config.buckets[n]]]
    /\ UNCHANGED <<mimedb, now, call, locals, net, reads, prev, threads, batch, pure, fetch, pick>>

\* urlopen returns or raises, and upload_bytes runs to its end
UrlopenReturns ==
    /\ pc = "put_sent"
    /\ \E ev \in NetEvents(net[Len(net)]) :
          LET finish(r) ==
                  /\ event' = ev
                  /\ result' = [kind |-> r.kind, type |-> r.type, val |-> r.val]
                  /\ signed' = IF r.sig # <<>> THEN Append(signed, r.sig) ELSE signed
                  /\ clock' = IF r.sig # <<>> THEN Append(clock, now) ELSE clock
          IN  finish(upload_bytes_finish(locals, urlopen(ev), now))
    /\ pc' = "done"
    /\ UNCHANGED <<mimedb, config, now, call, locals, net, reads, prev, threads, batch, pure, fetch, pick>>

GeneratePresignedUrl ==
    /\ pc = "idle"
    /\ \E key \in Keys, rec \in BucketRecords, expires \in ExpiresValues :
          LET finish(r) ==
                  /\ call' = [NoArgs EXCEPT !.op = "generate_presigned_url", !.key = key,
                                 !.rec = rec, !.expires = expires]
                  /\ result' = [kind |-> r.kind, type |-> r.type, val |-> r.val]
                  /\ signed' = IF r.sig # <<>> THEN Append(signed, r.sig) ELSE signed
                  /\ clock' = IF r.sig # <<>> THEN Append(clock, now) ELSE clock
          IN  finish(generate_presigned_url(key, rec, expires, now))
    /\ pc' = "done"
    /\ UNCHANGED <<mimedb, config, now, locals, net, reads, event, prev, threads, batch, pure, fetch, pick>>

\* generate_presigned_url that reports each URL it hands out to the endpoint
GeneratePresignedUrlAgain_report ==
    /\ pc = "done"
    /\ call.op = "generate_presigned_url"
    /\ prev = NoResult
    /\ LET finish(r) ==
               /\ prev' = result
               /\ result' = [kind |-> r.kind, type |-> r.type, val |-> r.val]
               /\ signed' = IF r.sig # <<>> THEN Append(signed, r.sig) ELSE signed
               /\ clock' = IF r.sig # <<>> THEN Append(clock, now) ELSE clock
               /\ net' = IF r.kind = "return" THEN Append(net, r.val) ELSE net
       IN  finish(generate_presigned_url(call.key, call.rec, call.expires, now))
    /\ UNCHANGED <<mimedb, config, now, pc, call, locals, reads, event, threads, batch, pure, fetch, pick>>

\* the caller calls generate_presigned_url once more with the same key, bucket
\* record and expires, at the same instant
GeneratePresignedUrlAgain ==
    /\ pc = "done"
    /\ call.op = "generate_presigned_url"
    /\ prev = NoResult
    /\ LET finish(r) ==
               /\ prev' = result
               /\ result' = [kind |-> r.kind, type |-> r.type, val |-> r.val]
               /\ signed' = IF r.sig # <<>> THEN Append(signed, r.sig) ELSE signed
               /\ clock' = IF r.sig # <<>> THEN Append(clock, now) ELSE clock
       IN  finish(generate_presigned_url(call.key, call.rec, call.expires, now))
    /\ UNCHANGED <<mimedb, config, now, pc, call, locals, net, reads, event, threads, batch, pure, fetch, pick>>

\* keys and bucket records handed to build_public_url alone: a dated key, a
\* public_url and an endpoint with several trailing slashes
PublicKeys == Keys \cup {<<"2025", "/", "01", "/", "15", "/", "a", ".png">>, <<"/", "/", "a">>}

PublicRecords ==
    BucketRecords
    \cup {Rec(<<"https://", "h", "/", "/">>, <<"AK">>, <<"SK">>, <<"b">>, None, None, None),
          Rec(<<"https://", "h">>, <<"AK">>, <<"SK">>, <<"b">>, <<"https://", "cdn", "/", "/">>,
              None, None),
          Rec(<<"https://", "h">>, <<"AK">>, <<"SK">>, <<"b">>, <<>>, None, None)}

BuildPublicUrl ==
    /\ pc = "idle"
    /\ \E key \in PublicKeys, rec \in PublicRecords :
          /\ call' = [NoArgs EXCEPT !.op = "build_public_url", !.key = key, !.rec = rec]
          /\ result' = build_public_url(key, rec)
    /\ pc' = "done"
    /\ UNCHANGED <<mimedb, config, now, locals, net, signed, reads, event, clock, prev, threads, batch, pure, fetch, pick>>

\* the caller has the result; the next call starts from a clean slate
Finish ==
    /\ pc = "done"
    /\ pc' = "idle"
    /\ call' = NoArgs
    /\ locals' = NoLocals
    /\ net' = <<>>
    /\ signed' = <<>>
    /\ reads' = <<>>
    /\ event' = NoEvent
    /\ clock' = <<>>
    /\ result' = NoResult
    /\ prev' = NoResult
    /\ UNCHANGED <<mimedb, config, now, threads, batch, pure, fetch, pick>>

\* Time passes.  A call that is over reads the clock no more, so the clock is
\* let advance only between calls and while a call waits for the network.
Tick ==
    /\ pc # "done"
    /\ now < MaxClock
    /\ now' = now + 1
    /\ UNCHANGED <<mimedb, config, pc, call, locals, net, signed, reads, event, clock, result, prev, threads, batch, pure, fetch, pick>>

Next ==
    \/ UploadBytes
    \/ UploadFile
    \/ UrlopenReturns
    \/ GeneratePresignedUrl
    \/ GeneratePresignedUrlAgain
    \/ BuildPublicUrl
    \/ Finish
    \/ Tick

Spec == Init /\ [][Next]_vars

\* ============================================================== batch_upload
batchless == <<pc, call, locals, net, signed, reads, event, clock, result, prev, threads, pure, fetch, pick>>

\* lines 403-419: the call, up to the head of the loop
BatchUpload ==
    /\ batch.pc = "idle"
    /\ \E files \in BatchFiles, key_prefix \in {<<>>, <<"/", "p", "/">>},
          bucket \in {None, <<"alias">>}, make_public \in BOOLEAN :
          batch' = [IdleBatch EXCEPT !.pc = "loop", !.files = files,
                                     !.key_prefix = key_prefix, !.bucket = bucket,
                                     !.make_public = make_public, !.i = 1]
    /\ UNCHANGED <<mimedb, config, now, batchless>>

\* the arguments batch_upload hands to upload_file for its i-th file (lines 421-432)
BatchArgs(b) ==
    LET filename == Basename(b.files[b.i])
        prefix == Strip(b.key_prefix, {"/"})
    IN  [NoArgs EXCEPT !.op = "upload_file", !.local_path = b.files[b.i],
                       !.key = IF prefix # <<>> THEN prefix \o <<"/">> \o filename ELSE None,
                       !.bucket = b.bucket, !.make_public = b.make_public]

\* the head of the loop: either the files are used up and urls is returned, or
\* upload_file is called for the next file and runs until it blocks in urlopen
BatchNext ==
    /\ batch.pc = "loop"
    /\ LET put(r) ==
               IF ~r.ok THEN [batch EXCEPT !.pc = "done", !.result = r.res]
               ELSE [batch EXCEPT !.pc = "put_sent", !.req = r.req, !.locals = r.locals,
                                  !.log = Append(@, [kind |-> "put", i |-> batch.i,
                                                     url |-> r.req.url, at |-> now])]
           file(p) ==
               /\ reads' = IF p.read THEN Append(reads, batch.files[batch.i]) ELSE reads
               /\ batch' = IF ~p.ok THEN [batch EXCEPT !.pc = "done", !.result = p.res]
                           ELSE put(upload_bytes_request(p.args, config, now, ThreadUuid))
       IN  IF batch.i > Len(batch.files)
           THEN /\ batch' = [batch EXCEPT !.pc = "done", !.result = Return(batch.urls)]
                /\ reads' = reads
           ELSE file(upload_file_prepare(BatchArgs(batch), now))
    /\ UNCHANGED <<mimedb, config, now, pc, call, locals, net, signed, event, clock, result,
                   prev, threads, pure, fetch, pick>>

\* BatchUrlopenReturns that puts each new url in front of the list
BatchUrlopenReturns_prepend ==
    /\ batch.pc = "put_sent"
    /\ \E ev \in ThreadEvents(batch.req) :
          LET finish(r) ==
                  IF r.kind = "raise"
                  THEN [batch EXCEPT !.pc = "done",
                                     !.result = [kind |-> r.kind, type |-> r.type, val |-> r.val]]
                  ELSE [batch EXCEPT !.pc = "loop", !.urls = <<r.val>> \o @, !.i = @ + 1,
                                     !.req = NoRequest, !.locals = NoLocals,
                                     !.log = Append(@, [kind |-> "returned", i |-> batch.i,
                                                        url |-> r.val, at |-> now])]
          IN  batch' = finish(upload_bytes_finish(batch.locals, urlopen(ev), now))
    /\ UNCHANGED <<mimedb, config, now, batchless>>

\* BatchUrlopenReturns that goes on with the next file when an upload fails
BatchUrlopenReturns_skip ==
    /\ batch.pc = "put_sent"
    /\ \E ev \in ThreadEvents(batch.req) :
          LET finish(r) ==
                  IF r.kind = "raise"
                  THEN [batch EXCEPT !.pc = "loop", !.i = @ + 1,
                                     !.req = NoRequest, !.locals = NoLocals]
                  ELSE [batch EXCEPT !.pc = "loop", !.urls = Append(@, r.val), !.i = @ + 1,
                                     !.req = NoRequest, !.locals = NoLocals,
                                     !.log = Append(@, [kind |-> "returned", i |-> batch.i,
                                                        url |-> r.val, at |-> now])]
          IN  batch' = finish(upload_bytes_finish(batch.locals, urlopen(ev), now))
    /\ UNCHANGED <<mimedb, config, now, batchless>>

\* urlopen returns or raises: upload_bytes and upload_file run to their end;
\* an exception leaves batch_upload, a url is appended to urls (line 433)
BatchUrlopenReturns ==
    /\ batch.pc = "put_sent"
    /\ \E ev \in ThreadEvents(batch.req) :
          LET finish(r) ==
                  IF r.kind = "raise"
                  THEN [batch EXCEPT !.pc = "done",
                                     !.result = [kind |-> r.kind, type |-> r.type, val |-> r.val]]
                  ELSE [batch EXCEPT !.pc = "loop", !.urls = Append(@, r.val), !.i = @ + 1,
                                     !.req = NoRequest, !.locals = NoLocals,
                                     !.log = Append(@, [kind |-> "returned", i |-> batch.i,
                                                        url |-> r.val, at |-> now])]
          IN  batch' = finish(upload_bytes_finish(batch.locals, urlopen(ev), now))
    /\ UNCHANGED <<mimedb, config, now, batchless>>

\* the caller has the list or the exception
BatchFinish ==
    /\ batch.pc = "done"
    /\ batch' = IdleBatch
    /\ reads' = <<>>
    /\ UNCHANGED <<mimedb, config, now, pc, call, locals, net, signed, event, clock, result,
                   prev, threads, pure, fetch, pick>>

TickBatch ==
    /\ now < MaxClock
    /\ batch.pc \in {"loop", "put_sent"}
    /\ now' = now + 1
    /\ UNCHANGED <<mimedb, config, batch, batchless>>

NextBatch ==
    \/ BatchUpload
    \/ BatchNext
    \/ BatchUrlopenReturns
    \/ BatchFinish
    \/ TickBatch

SpecBatch == Init /\ [][NextBatch]_vars

\* ====================================================== the library as a whole
\* One caller at a time uses the library: a single call (Next) or a batch
\* (NextBatch), each begun when nothing else is in progress.
NextLibrary ==
    \/ batch.pc = "idle" /\ UploadBytes
    \/ batch.pc = "idle" /\ UploadFile
    \/ batch.pc = "idle" /\ UrlopenReturns
    \/ batch.pc = "idle" /\ GeneratePresignedUrl
    \/ batch.pc = "idle" /\ GeneratePresignedUrlAgain
    \/ batch.pc = "idle" /\ BuildPublicUrl
    \/ batch.pc = "idle" /\ Finish
    \/ batch.pc = "idle" /\ Tick
    \/ pc = "idle" /\ BatchUpload
    \/ pc = "idle" /\ BatchNext
    \/ pc = "idle" /\ BatchUrlopenReturns
    \/ pc = "idle" /\ BatchFinish
    \/ pc = "idle" /\ TickBatch

SpecLibrary == Init /\ [][NextLibrary]_vars

\* ================================================== the helpers, one by one
pureless ==
    <<mimedb, config, now, pc, call, locals, net, signed, reads, event, clock, result, prev,
      threads, batch, fetch, pick>>

ApplyGetSignatureKey ==
    /\ pure.fn = "none"
    /\ \E secret \in Secrets, date_stamp \in DateStamps, region \in Regions,
          service \in Services :
          pure' = [fn |-> "get_signature_key",
                   args |-> <<secret, date_stamp, region, service>>,
                   out |-> get_signature_key(secret, date_stamp, region, service)]
    /\ UNCHANGED pureless

\* the header dicts upload_bytes builds, as name |-> value
HeaderDicts ==
    {[n \in {"host", "x-amz-content-sha256", "x-amz-date", "content-type"} \cup opt |->
         CASE n = "host" -> <<"h">>
           [] n = "x-amz-content-sha256" -> Sha256Hex(<<"d">>)
           [] n = "x-amz-date" -> AmzDate(0)
           [] n = "content-type" -> <<"application/octet-stream">>
           [] n = "cache-control" -> HeaderText
           [] n = "x-amz-security-token" -> <<"tok", "/", "en">>] :
        opt \in SUBSET {"cache-control", "x-amz-security-token"}}

\* every order in which the items of dict d can have been inserted
RECURSIVE Orders(_)
Orders(S) ==
    IF S = {} THEN {<<>>}
    ELSE UNION {{<<x>> \o o : o \in Orders(S \ {x})} : x \in S}

Insertions(d) ==
    {[i \in 1..Len(order) |-> <<order[i], d[order[i]]>>] : order \in Orders(DOMAIN d)}

ApplyCanonicalHeaders ==
    /\ pure.fn = "none"
    /\ \E d \in HeaderDicts : \E items \in Insertions(d) :
          pure' = [fn |-> "canonical_headers", args |-> items,
                   out |-> <<CanonicalHeaders(items), SignedHeaderList(items)>>]
    /\ UNCHANGED pureless

ContentTypeNames ==
    {<<"photo", ".jpg">>, <<"data", ".xyz">>, <<"notes", ".yml">>, <<"d", "/", "f", ".png">>,
     <<"g">>}

ApplyGuessContentType ==
    /\ pure.fn = "none"
    /\ \E name \in ContentTypeNames, override \in {None, <<>>, <<"text/custom">>} :
          pure' = [fn |-> "_guess_content_type", args |-> <<name, override>>,
                   out |-> _guess_content_type(name, override)]
    /\ UNCHANGED pureless

\* the longest wait between two signing calls, in half seconds
MaxInstant == 3

\* The instants at which the clock is read, in half seconds: a few in a row,
\* and one on the next day.
Instants == (0..MaxInstant) \cup {2 * SecondsPerDay + 1}

\* datetime.now(timezone.utc) read at an instant, as strftime("...%H%M%S")
\* sees it: the whole seconds, the fraction is dropped
UtcSecond(instant) == instant \div 2

\* the bucket records the signing calls are made for
SigningRecords == {GoodMin, GoodReal, GoodFull}

\* the signing part of a call made at instant i: the PUT request of
\* upload_bytes, or the URL of generate_presigned_url
SigningCall(op, rec, i) ==
    IF op = "upload_bytes"
    THEN upload_bytes_request([NoArgs EXCEPT !.op = op, !.data = <<"d">>, !.key = <<"a">>],
                              [default |-> <<"main">>, buckets |-> [n \in {<<"main">>} |-> rec]],
                              UtcSecond(i), ThreadUuid).req
    ELSE generate_presigned_url(<<"a">>, rec, 300, UtcSecond(i)).val

\* ApplySigning whose second call signs with the clock reading of the first
ApplySigning_cached ==
    /\ pure.fn = "none"
    /\ \E op \in {"upload_bytes", "generate_presigned_url"}, rec \in SigningRecords,
          i1 \in Instants, i2 \in Instants :
          /\ i1 <= i2
          /\ pure' = [fn |-> "signing", args |-> <<op, rec, i1, i2>>,
                      out |-> <<SigningCall(op, rec, i1), SigningCall(op, rec, i1)>>]
    /\ UNCHANGED pureless

\* two signing calls of the same kind for the same bucket, the first at
\* instant i1 and the second at instant i2
ApplySigning ==
    /\ pure.fn = "none"
    /\ \E op \in {"upload_bytes", "generate_presigned_url"}, rec \in SigningRecords,
          i1 \in Instants, i2 \in Instants :
          /\ i1 <= i2
          /\ pure' = [fn |-> "signing", args |-> <<op, rec, i1, i2>>,
                      out |-> <<SigningCall(op, rec, i1), SigningCall(op, rec, i2)>>]
    /\ UNCHANGED pureless

\* the caller has the value
PureReturn ==
    /\ pure.fn # "none"
    /\ pure' = NoApplication
    /\ UNCHANGED pureless

NextPure ==
    \/ ApplyGetSignatureKey
    \/ ApplyCanonicalHeaders
    \/ ApplyGuessContentType
    \/ ApplySigning
    \/ PureReturn

InitPure ==
    /\ mimedb \in MimeTables
    /\ config \in ThreadConfigs
    /\ Idle

SpecPure == InitPure /\ [][NextPure]_vars

\* ======================================================== fetch_multi_source
\* the longest list of sources handed to fetch_multi_source
MaxSources == 3

\* the sources asked for: two that fetch_news knows and one it does not
SourceNames == {"hackernews", "lobsters", "nosuch"}

Fetchers == {"hackernews", "lobsters"}

\* the values of FETCH_WORKERS after lines 533-536 (an unset or malformed
\* value gives 4)
FetchWorkers == {1, 4}

Article(source, title) == [source |-> source, title |-> title]

\* fetch_news(source): ValueError for a source without fetcher; else whatever
\* the fetcher does at that moment, an exception of the network or a list of
\* articles of that source
fetch_news(source) ==
    IF source \notin Fetchers
    THEN {[ok |-> FALSE, val |-> <<>>, err |-> "ValueError"]}
    ELSE {[ok |-> FALSE, val |-> <<>>, err |-> "URLError"],
          [ok |-> TRUE, val |-> <<Article(source, "x")>>, err |-> ""],
          [ok |-> TRUE, val |-> <<Article(source, "y"), Article(source, "x")>>, err |-> ""]}

\* d[k] = v on a dict
DictSet(d, k, v) == [x \in DOMAIN d \cup {k} |-> IF x = k THEN v ELSE d[x]]

fetchless ==
    <<mimedb, config, now, pc, call, locals, net, signed, reads, event, clock, result, prev,
      threads, batch, pure, pick>>

\* lines 527-543: the call, the pool and the submission of one future per
\* element of sources
FetchMultiSource ==
    /\ fetch.pc = "idle"
    /\ \E sources \in SeqsUpTo(SourceNames, MaxSources), workers \in FetchWorkers :
          fetch' = [IdleFetch EXCEPT
                       !.pc = "pool", !.sources = sources,
                       !.max_workers =
                           IF workers < Len(sources) THEN workers
                           ELSE IF Len(sources) < 1 THEN 1 ELSE Len(sources),
                       !.state = [i \in 1..Len(sources) |-> "pending"],
                       !.outcome = [i \in 1..Len(sources) |->
                                       [ok |-> FALSE, val |-> <<>>, err |-> ""]]]
    /\ UNCHANGED fetchless

\* The workers of the pool take the futures in the order of submission, so
\* the futures being run are the first max_workers unfinished ones.  A
\* worker's fetch_news returns or raises: its future is finished.
WorkerEnd(i) ==
    /\ fetch.pc = "pool"
    /\ fetch.state[i] = "pending"
    /\ Cardinality({j \in 1..(i - 1) : fetch.state[j] = "pending"}) < fetch.max_workers
    /\ \E o \in fetch_news(fetch.sources[i]) :
          fetch' = [fetch EXCEPT !.state[i] = "finished", !.outcome[i] = o]
    /\ UNCHANGED fetchless

\* lines 544-549: as_completed hands the main thread a finished future, whose
\* result or exception goes into results or errors under its source
AsCompleted(i) ==
    /\ fetch.pc = "pool"
    /\ fetch.state[i] = "finished"
    /\ fetch' = IF fetch.outcome[i].ok
                THEN [fetch EXCEPT !.state[i] = "collected",
                                   !.results = DictSet(@, fetch.sources[i], fetch.outcome[i].val)]
                ELSE [fetch EXCEPT !.state[i] = "collected",
                                   !.errors = DictSet(@, fetch.sources[i], fetch.outcome[i].err)]
    /\ UNCHANGED fetchless

\* lines 551-561: as_completed is used up, the pool is shut down, and the
\* articles are gathered source by source in the order of the argument
FetchMerge ==
    /\ fetch.pc = "pool"
    /\ \A i \in 1..Len(fetch.state) : fetch.state[i] = "collected"
    /\ fetch' = [fetch EXCEPT
                    !.pc = "done",
                    !.out = Flatten([i \in 1..Len(fetch.sources) |->
                                IF fetch.sources[i] \in DOMAIN fetch.results
                                THEN fetch.results[fetch.sources[i]] ELSE <<>>])]
    /\ UNCHANGED fetchless

\* the caller has the articles
FetchReturn ==
    /\ fetch.pc = "done"
    /\ fetch' = IdleFetch
    /\ UNCHANGED fetchless

NextFetch ==
    \/ FetchMultiSource
    \/ \E i \in 1..MaxSources : i <= Len(fetch.state) /\ WorkerEnd(i)
    \/ \E i \in 1..MaxSources : i <= Len(fetch.state) /\ AsCompleted(i)
    \/ FetchMerge
    \/ FetchReturn

InitFetch ==
    /\ Init
    /\ config \in ThreadConfigs

SpecFetch == InitFetch /\ [][NextFetch]_vars

\* ================================================== pick_articles_balanced
\* src/tech-news-blog/scripts/generate.py, lines 117-147
MaxArticles == 4
MaxLimit == 5
MaxPerSource == 2

\* an article dict without 'source' key
Absent == "<absent>"

ArticleSources == {"hackernews", "lobsters", Absent}

\* the article lists handed to the function: the title of an article is its
\* place in the list, so that two articles of a list are never the same dict
ArticleLists ==
    UNION {{[i \in 1..n |-> Article(f[i], i)] : f \in [1..n -> ArticleSources]} :
               n \in 0..MaxArticles}

\* a.get('source', 'unknown')
SourceOf(a) == IF a.source = Absent THEN "unknown" ELSE a.source

\* s[:n] for n >= 0
UpTo(s, n) == SubSeq(s, 1, IF n < Len(s) THEN n ELSE Len(s))

\* lines 119-121: the articles of each source, in the order of the list
ArticleBuckets(articles) ==
    [src \in {SourceOf(articles[i]) : i \in 1..Len(articles)} |->
        SelectSeq(articles, LAMBDA a : SourceOf(a) = src)]

\* line 123: the keys of buckets, a dict, in the order of their insertion
RECURSIVE SourceOrder(_)
SourceOrder(articles) ==
    IF articles = <<>> THEN <<>>
    ELSE LET before == SourceOrder(SubSeq(articles, 1, Len(articles) - 1))
             src == SourceOf(articles[Len(articles)])
         IN  IF \E k \in 1..Len(before) : before[k] = src THEN before
             ELSE Append(before, src)

pickless ==
    <<mimedb, config, now, pc, call, locals, net, signed, reads, event, clock, result, prev,
      threads, batch, pure, fetch>>

\* lines 117-125: the call, the buckets and the empty pick
PickArticlesBalanced ==
    /\ pick.pc = "idle"
    /\ \E articles \in ArticleLists, limit \in 0..MaxLimit, per_source \in 0..MaxPerSource :
          pick' = [pc |-> "first", articles |-> articles, limit |-> limit,
                   per_source |-> per_source, buckets |-> ArticleBuckets(articles),
                   source_order |-> SourceOrder(articles), picked |-> <<>>, k |-> 1,
                   i |-> 0, progressed |-> FALSE, out |-> <<>>]
    /\ UNCHANGED pickless

\* lines 126-130: first round, one source per step
PickFirstRound ==
    /\ pick.pc = "first"
    /\ pick.k <= Len(pick.source_order)
    /\ LET src == pick.source_order[pick.k]
           picked == IF src \in DOMAIN pick.buckets
                     THEN pick.picked \o UpTo(pick.buckets[src], pick.per_source)
                     ELSE pick.picked
       IN  pick' = IF Len(picked) >= pick.limit
                   THEN [pick EXCEPT !.picked = picked, !.out = UpTo(picked, pick.limit),
                                     !.pc = "done"]
                   ELSE [pick EXCEPT !.picked = picked, !.k = @ + 1]
    /\ UNCHANGED pickless

\* line 133: the first round is over without `limit` articles
PickSecondRound ==
    /\ pick.pc = "first"
    /\ pick.k > Len(pick.source_order)
    /\ pick' = [pick EXCEPT !.i = pick.per_source, !.pc = "while"]
    /\ UNCHANGED pickless

\* lines 134-135 and 147: the test of the while loop
PickWhile ==
    /\ pick.pc = "while"
    /\ pick' = IF Len(pick.picked) < pick.limit
               THEN [pick EXCEPT !.progressed = FALSE, !.k = 1, !.pc = "pass"]
               ELSE [pick EXCEPT !.out = UpTo(pick.picked, pick.limit), !.pc = "done"]
    /\ UNCHANGED pickless

\* PickPassEnds that starts the next pass at the same index
PickPassEnds_same ==
    /\ pick.pc = "pass"
    /\ pick.k > Len(pick.source_order)
    /\ pick' = IF ~pick.progressed
               THEN [pick EXCEPT !.out = UpTo(pick.picked, pick.limit), !.pc = "done"]
               ELSE [pick EXCEPT !.pc = "while"]
    /\ UNCHANGED pickless

\* lines 136-141: one source of a pass of the second round
PickPass ==
    /\ pick.pc = "pass"
    /\ pick.k <= Len(pick.source_order)
    /\ LET src == pick.source_order[pick.k]
       IN  IF src \in DOMAIN pick.buckets /\ pick.i < Len(pick.buckets[src])
           THEN LET picked == Append(pick.picked, pick.buckets[src][pick.i + 1])
                IN  pick' = IF Len(picked) >= pick.limit
                            THEN [pick EXCEPT !.picked = picked, !.progressed = TRUE,
                                              !.out = UpTo(picked, pick.limit),
                                              !.pc = "done"]
                            ELSE [pick EXCEPT !.picked = picked, !.progressed = TRUE,
                                              !.k = @ + 1]
           ELSE pick' = [pick EXCEPT !.k = @ + 1]
    /\ UNCHANGED pickless

\* lines 142-147: the end of a pass, break without progress
PickPassEnds ==
    /\ pick.pc = "pass"
    /\ pick.k > Len(pick.source_order)
    /\ pick' = IF ~pick.progressed
               THEN [pick EXCEPT !.out = UpTo(pick.picked, pick.limit), !.pc = "done"]
               ELSE [pick EXCEPT !.i = @ + 1, !.pc = "while"]
    /\ UNCHANGED pickless

\* the caller has the articles
PickReturn ==
    /\ pick.pc = "done"
    /\ pick' = IdlePick
    /\ UNCHANGED pickless

\* a step of the function's body
PickStep ==
    \/ PickFirstRound
    \/ PickSecondRound
    \/ PickWhile
    \/ PickPass
    \/ PickPassEnds

NextPick ==
    \/ PickArticlesBalanced
    \/ PickFirstRound
    \/ PickSecondRound
    \/ PickWhile
    \/ PickPass
    \/ PickPassEnds
    \/ PickReturn

InitPick ==
    /\ Init
    /\ config \in ThreadConfigs

SpecPick == InitPick /\ [][NextPick]_vars

\* the body is sequential code: a step that can be taken is taken
SpecPickFair == SpecPick /\ WF_vars(PickStep)

\* ======================================================= concurrent callers
seqvars == <<pc, call, locals, net, signed, reads, event, clock, result, prev, batch, pure, fetch, pick>>

InitThreads ==
    /\ Init
    /\ config \in ThreadConfigs

\* a thread calls upload_bytes, generate_presigned_url or build_public_url
ThreadCall(t) ==
    /\ threads[t].pc = "idle"
    /\ \E a \in ThreadCalls :
          threads' = [threads EXCEPT ![t] = [IdleFrame EXCEPT !.pc = "called", !.call = a]]
    /\ UNCHANGED <<mimedb, config, now, seqvars>>

\* ThreadResolve that remembers the bucket it resolved as the config's default
ThreadResolve_remember(t) ==
    /\ threads[t].pc = "called"
    /\ LET resolved(f, rb) ==
               IF f.call.op # "upload_bytes"
               THEN /\ threads' = [threads EXCEPT ![t] =
                                      [f EXCEPT !.pc = "resolved", !.rec = f.call.rec]]
                    /\ config' = config
               ELSE IF ~rb.ok
               THEN /\ threads' = [threads EXCEPT ![t] =
                                      [f EXCEPT !.pc = "done", !.result = R2UploadError(rb.err)]]
                    /\ config' = config
               ELSE /\ threads' = [threads EXCEPT ![t] =
                                      [f EXCEPT !.pc = "resolved", !.name = rb.name,
                                                !.rec = rb.rec]]
                    /\ config' = [config EXCEPT !.default = rb.name]
       IN  resolved(threads[t], resolve_bucket_config(config, threads[t].call.bucket))
    /\ UNCHANGED <<mimedb, now, seqvars>>

\* line 257: upload_bytes reads the shared config and keeps the bucket's name
\* and record in its locals; the other two functions are handed the record
ThreadResolve(t) ==
    /\ threads[t].pc = "called"
    /\ LET resolved(f, rb) ==
               IF f.call.op # "upload_bytes"
               THEN threads' = [threads EXCEPT ![t] =
                                   [f EXCEPT !.pc = "resolved", !.rec = f.call.rec]]
               ELSE IF ~rb.ok
               THEN threads' = [threads EXCEPT ![t] =
                                   [f EXCEPT !.pc = "done", !.result = R2UploadError(rb.err)]]
               ELSE threads' = [threads EXCEPT ![t] =
                                   [f EXCEPT !.pc = "resolved", !.name = rb.name,
                                             !.rec = rb.rec]]
       IN  resolved(threads[t], resolve_bucket_config(config, threads[t].call.bucket))
    /\ UNCHANGED <<mimedb, config, now, seqvars>>

\* the bucket a frame holds, in the shape resolve_bucket_config reads
FrameConfig(f) == [default |-> f.name, buckets |-> [n \in {f.name} |-> f.rec]]

\* lines 258-326 of upload_bytes (the clock is read at line 271, the request
\* is handed to urlopen at line 329), and all of generate_presigned_url and
\* build_public_url, on the thread's own locals
ThreadSign(t) ==
    /\ threads[t].pc = "resolved"
    /\ LET put(f, r) ==
               IF r.ok
               THEN [f EXCEPT !.pc = "put_sent", !.t0 = now, !.req = r.req, !.locals = r.locals]
               ELSE [f EXCEPT !.pc = "done", !.t0 = now, !.result = r.res]
           presigned(f, r) ==
               [f EXCEPT !.pc = "done", !.t0 = now,
                         !.result = [kind |-> r.kind, type |-> r.type, val |-> r.val]]
           step(f) ==
               CASE f.call.op = "upload_bytes" ->
                       put(f, upload_bytes_request(f.call, FrameConfig(f), now, ThreadUuid))
                 [] f.call.op = "generate_presigned_url" ->
                       presigned(f, generate_presigned_url(f.call.key, f.rec,
                                                           f.call.expires, now))
                 [] f.call.op = "build_public_url" ->
                       [f EXCEPT !.pc = "done", !.result = build_public_url(f.call.key, f.rec)]
       IN  threads' = [threads EXCEPT ![t] = step(threads[t])]
    /\ UNCHANGED <<mimedb, config, now, seqvars>>

\* the thread's urlopen returns or raises, and its upload_bytes runs to its end
ThreadUrlopenReturns(t) ==
    /\ threads[t].pc = "put_sent"
    /\ \E ev \in ThreadEvents(threads[t].req) :
          LET finish(f, r) ==
                  [f EXCEPT !.pc = "done", !.ev = ev, !.t1 = now,
                            !.result = [kind |-> r.kind, type |-> r.type, val |-> r.val]]
          IN  threads' = [threads EXCEPT ![t] =
                             finish(threads[t],
                                    upload_bytes_finish(threads[t].locals, urlopen(ev), now))]
    /\ UNCHANGED <<mimedb, config, now, seqvars>>

\* the thread's caller has the result
ThreadFinish(t) ==
    /\ threads[t].pc = "done"
    /\ threads' = [threads EXCEPT ![t] = IdleFrame]
    /\ UNCHANGED <<mimedb, config, now, seqvars>>

TickThreads ==
    /\ now < MaxClock
    /\ \E t \in Threads : threads[t].pc \notin {"idle", "done"}
    /\ now' = now + 1
    /\ UNCHANGED <<mimedb, config, threads, seqvars>>

NextThreads ==
    \/ \E t \in Threads : ThreadCall(t)
    \/ \E t \in Threads : ThreadResolve(t)
    \/ \E t \in Threads : ThreadSign(t)
    \/ \E t \in Threads : ThreadUrlopenReturns(t)
    \/ \E t \in Threads : ThreadFinish(t)
    \/ TickThreads

SpecThreads == InitThreads /\ [][NextThreads]_vars

\* =================================================================== claims
\* s occurs in m as a contiguous run of tokens
Contains(m, s) == \E i \in 1..(Len(m) - Len(s) + 1) : SubSeq(m, i, i + Len(s) - 1) = s

\* the value of query parameter name in url: the tokens after "name=" up to
\* the next "&"
ParamValue(url, name) ==
    LET at == {i \in 1..(Len(url) - 1) : url[i] = name /\ url[i + 1] = "="}
        i == CHOOSE j \in at : TRUE
        rest == SubSeq(url, i + 2, Len(url))
    IN  IF at = {} THEN None ELSE SubSeq(rest, 1, FirstIn(rest, {"&"}, 1) - 1)

IsUpload == call.op \in {"upload_bytes", "upload_file"}

SuccessStatus(ev) == ev.kind = "status" /\ ev.code \in {200, 201, 204}

\* the bucket record the call in progress selects from the config
Selected == resolve_bucket_config(config, call.bucket)

SelectedName == IF Truthy(call.bucket) THEN call.bucket ELSE config.default

\* the endpoint has something other than "/" after the host
EndpointHasPath(e) ==
    \E i, j \in 1..Len(e) : i < j /\ e[i] = "/" /\ e[j] \notin {"/", " "}

\* C1: for every resolved bucket record, the PUT of upload_bytes goes to
\* {endpoint}/{bucket_name field of the record}/{percent-encoded normalized
\* key}, also when bucket_name differs from the name the record is listed under.
C1_PutUrlUsesRecordBucketName ==
    (pc = "put_sent" /\ IsUpload) =>
        net[Len(net)].url =
            _normalize_endpoint(Selected.rec["endpoint"]).endpoint \o <<"/">>
                \o Selected.rec["bucket_name"] \o <<"/">> \o _aws_encode_uri(locals.key)

\* C2: upload_bytes returns a URL only if the PUT's response status is 200, 201
\* or 204; for every other status and every transport failure it raises the
\* library's upload error (R2UploadError) and returns no URL.
C2_UrlOnlyOnSuccessElseUploadError ==
    (pc = "done" /\ IsUpload /\ event # NoEvent) =>
        /\ Returned(result) => SuccessStatus(event)
        /\ ~SuccessStatus(event) => Raised(result) /\ result.type = "R2UploadError"

\* what upload_bytes may return after a successful PUT: the public URL when
\* make_public, else the presigned URL for the caller's expires, signed at a
\* clock reading between the PUT and the present
C3_Expected ==
    IF call.make_public
    THEN {build_public_url(locals.key, Selected.rec)}
    ELSE {LET r == generate_presigned_url(locals.key, Selected.rec, call.expires, t)
          IN  [kind |-> r.kind, type |-> r.type, val |-> r.val] : t \in clock[1]..now}

\* C3: after a successful PUT, upload_bytes returns build_public_url(key,
\* bucket record) when make_public is true and otherwise
\* generate_presigned_url(key, bucket record, expires) for the same normalized
\* key and the caller's expires; no other URL is ever returned.
C3_SuccessReturnsPublicOrPresigned ==
    (pc = "done" /\ IsUpload) =>
        /\ SuccessStatus(event) =>
              /\ result \in C3_Expected
              /\ (call.op = "upload_bytes" /\ call.key # None)
                    => locals.key = _normalize_key(call.key)
        /\ Returned(result) => SuccessStatus(event) /\ result \in C3_Expected

C3_Witness ==
    /\ pc = "done" /\ call.op = "upload_bytes" /\ SuccessStatus(event)
    /\ Returned(result) /\ ~call.make_public /\ call.expires = 1
    /\ call.key = <<"\\", "a">>

\* C4: every call of upload_bytes issues at most one PUT request, whatever the
\* outcome; after a failure nothing is sent again and no other endpoint is tried.
C4_AtMostOnePut ==
    /\ Len(net) <= 1
    /\ (pc = "done" /\ event # NoEvent) => Len(net) = 1

C4_Witness ==
    /\ pc = "done" /\ IsUpload /\ event.kind = "timeout_connect"
    /\ Raised(result) /\ Len(net) = 1

\* the record satisfies the invariant of a bucket record: the required fields
\* are non-empty and the endpoint names a host and has no path
ValidRecord(rec) ==
    /\ \A i \in 1..Len(REQUIRED_BUCKET_FIELDS) : Truthy(rec[REQUIRED_BUCKET_FIELDS[i]])
    /\ ~EndpointHasPath(rec["endpoint"])
    /\ \E i \in 1..Len(rec["endpoint"]) : rec["endpoint"][i] \notin Schemes \cup {"/", " "}

\* C5: generate_presigned_url fails with the validation error for every
\* expires outside [1, 604800], and for every expires inside the range (bounds
\* included) it returns, for a valid bucket record, a URL whose X-Amz-Expires
\* is the given value.
C5_ExpiresBounds ==
    (pc = "done" /\ call.op = "generate_presigned_url") =>
        /\ (call.expires < 1 \/ call.expires > 604800) =>
              result = R2UploadError(<<"expires must be between 1 and ", "604800", " seconds">>)
        /\ (call.expires >= 1 /\ call.expires <= 604800 /\ ValidRecord(call.rec)) =>
              /\ Returned(result)
              /\ ParamValue(result.val, "X-Amz-Expires") = <<ToString(call.expires)>>

C5_Witness ==
    /\ pc = "done" /\ call.op = "generate_presigned_url"
    /\ call.expires = 604800 /\ Returned(result)

\* C6: upload_bytes and generate_presigned_url called with a key that is empty
\* after normalization, or with an empty bucket_name, never produce a
\* signature, a request or a URL.
C6_EmptyKeyOrBucketNeverSigned ==
    LET rec == IF call.op = "generate_presigned_url" THEN call.rec ELSE Selected.rec
    IN  (/\ call.op \in {"upload_bytes", "generate_presigned_url"}
         /\ \/ call.key # None /\ _normalize_key(call.key) = <<>>
            \/ rec # None /\ rec["bucket_name"] = <<>>)
        => (signed = <<>> /\ net = <<>> /\ ~Returned(result))

\* C7: the PUT carries the caller's timeout, and every timeout of the network
\* call (connecting, sending, waiting for the response) ends upload_bytes with
\* R2UploadError "Network error", never with another exception.
C7_TimeoutIsNetworkError ==
    /\ (IsUpload /\ net # <<>>) => net[Len(net)].timeout = call.timeout
    /\ (pc = "done" /\ event.kind \in {"timeout_connect", "timeout_send", "timeout_response"})
          => result = R2UploadError(<<"Network error: ", "timed out">>)

\* C8: no error raised by upload_bytes or generate_presigned_url carries a
\* request signature in its message, whatever the server returns, and the
\* message holds at most 500 characters of response body.  (A digest is
\* modelled as a term over its inputs, so the secret and the signing key are
\* looked for as part of the signatures.)
C8_ErrorsCarryNoSignature ==
    (pc = "done" /\ Raised(result)) =>
        /\ \A i \in 1..Len(signed) : ~Contains(result.val, signed[i])
        /\ event.kind = "status" =>
              Len(result.val) <= Len(<<"HTTP ", "403", ": ">> \o event.reason \o <<" - ">>)
                                    + MaxErrorBody

\* C9: upload_bytes sends no request and computes no signature when the
\* selected bucket record is invalid (not found, a required field missing or
\* empty, or an endpoint with a path component): it fails with the
\* configuration error before any signing or network activity.
C9_InvalidRecordNothingSent ==
    LET name == SelectedName
        found == Truthy(name) /\ name \in DOMAIN config.buckets
        rec == config.buckets[name]
        invalid == \/ ~found
                   \/ \E i \in 1..Len(REQUIRED_BUCKET_FIELDS) :
                         ~Truthy(rec[REQUIRED_BUCKET_FIELDS[i]])
                   \/ EndpointHasPath(rec["endpoint"])
    IN  (IsUpload /\ invalid) =>
            /\ net = <<>> /\ signed = <<>> /\ pc = "done"
            /\ call.op = "upload_bytes" => Raised(result) /\ result.type = "R2UploadError"

C9_Witness ==
    /\ pc = "done" /\ call.op = "upload_bytes"
    /\ Truthy(SelectedName) /\ SelectedName \in DOMAIN config.buckets
    /\ EndpointHasPath(config.buckets[SelectedName]["endpoint"])
    /\ Raised(result) /\ net = <<>>

\* C10: upload_file called with both a (non-empty) key and a (non-empty)
\* key_prefix fails with the validation error before the local file is read
\* and before any request is sent; with at most one of them given it never
\* fails for that reason.
C10_KeyAndPrefixConflict ==
    LET conflict == R2UploadError(<<"Provide either key or key_prefix, not both">>)
    IN  call.op = "upload_file" =>
            /\ (Truthy(call.key) /\ Truthy(call.key_prefix)) =>
                  (pc = "done" /\ result = conflict /\ reads = <<>> /\ net = <<>> /\ signed = <<>>)
            /\ ~(Truthy(call.key) /\ Truthy(call.key_prefix)) => result # conflict

C10_Witness ==
    /\ pc = "done" /\ call.op = "upload_file"
    /\ call.key = <<"a">> /\ call.key_prefix = <<"/", "p", "/">>
    /\ call.local_path \in Files
    /\ Raised(result) /\ reads = <<>>

Ascending(names) ==
    \A i \in 1..(Len(names) - 1) : <<names[i], names[i + 1]>> \in NameOrder

\* the parameter names of the query string of url, in the order of the wire
\* the parameter names of the query string of url, in the order of the wire
\* the number of digests that are open at position i of url
Depth(url, i) ==
    Cardinality({j \in 1..(i - 1) : url[j] \in {"hmac(", "sha256("}})
        - Cardinality({j \in 1..(i - 1) : url[j] = ")"})

\* the parameter names of the query string of url, in the order of the wire
\* (a digest is one value: what is inside it is no part of the query)
QueryNames(url) ==
    LET names(at) == [i \in 1..Len(at) |-> url[at[i]]]
        top(q, opens, closes) ==
            names(SelectSeq([i \in 1..Len(url) |-> i],
                            LAMBDA i : /\ i > q /\ i < Len(url)
                                       /\ url[i + 1] = "=" /\ url[i - 1] \in {"?", "&"}
                                       /\ Cardinality({j \in opens : j < i})
                                             = Cardinality({j \in closes : j < i})))
    IN  top(FirstIn(url, {"?"}, 1),
            {j \in 1..Len(url) : url[j] \in {"hmac(", "sha256("}},
            {j \in 1..Len(url) : url[j] = ")"})

\* the text of url ends with s
EndsWith(url, s) ==
    Len(url) >= Len(s) /\ SubSeq(url, Len(url) - Len(s) + 1, Len(url)) = s

\* the call in progress has returned a presigned URL
PresignedReturned ==
    /\ pc = "done" /\ Returned(result)
    /\ \/ call.op = "generate_presigned_url"
       \/ IsUpload /\ ~call.make_public

\* the bucket record that URL was signed for
PresignedRec == IF call.op = "generate_presigned_url" THEN call.rec ELSE locals.bucket_config

\* C12 (as stated): for a bucket without session token the query string of
\* every presigned URL has exactly the six names X-Amz-Algorithm,
\* X-Amz-Credential, X-Amz-Date, X-Amz-Expires, X-Amz-SignedHeaders and
\* X-Amz-Signature, each once, all six in byte-wise ascending order of name.
C12_SixNamesAscending ==
    LET six(names) ==
            /\ Len(names) = 6
            /\ {names[i] : i \in 1..Len(names)} =
                  {"X-Amz-Algorithm", "X-Amz-Credential", "X-Amz-Date", "X-Amz-Expires",
                   "X-Amz-SignedHeaders", "X-Amz-Signature"}
            /\ Ascending(names)
    IN  (PresignedReturned /\ ~Truthy(PresignedRec["session_token"])) =>
            six(QueryNames(result.val))

\* C12 (amended): for a bucket without session token the query string of
\* every presigned URL has exactly those six names, each once: the five signed
\* names in byte-wise ascending order, then X-Amz-Signature last, whose value
\* is the hex HMAC digest the call computed last.
C12_FiveSortedThenSignature ==
    LET six(names) ==
            /\ names = <<"X-Amz-Algorithm", "X-Amz-Credential", "X-Amz-Date", "X-Amz-Expires",
                         "X-Amz-SignedHeaders", "X-Amz-Signature">>
            /\ Ascending(SubSeq(names, 1, 5))
    IN  (PresignedReturned /\ ~Truthy(PresignedRec["session_token"])) =>
            /\ six(QueryNames(result.val))
            /\ EndsWith(result.val, <<"&", "X-Amz-Signature", "=">> \o signed[Len(signed)])
            /\ Head(signed[Len(signed)]) = "hmac("

C12_Witness ==
    /\ PresignedReturned /\ IsUpload /\ ~Truthy(PresignedRec["session_token"])
    /\ EndsWith(result.val, <<"&", "X-Amz-Signature", "=">> \o signed[Len(signed)])
    /\ <<"X-Amz-SignedHeaders", "X-Amz-Signature">> \notin NameOrder

\* C13 (as stated): a presigned URL has X-Amz-Security-Token exactly when the
\* bucket record has a session token, and then the names are in the order
\* Algorithm, Credential, Date, Expires, SignedHeaders, Security-Token,
\* Signature.
C13_TokenAfterSignedHeaders ==
    LET order(names) ==
            /\ (\E i \in 1..Len(names) : names[i] = "X-Amz-Security-Token")
                  <=> Truthy(PresignedRec["session_token"])
            /\ Truthy(PresignedRec["session_token"]) =>
                  names = <<"X-Amz-Algorithm", "X-Amz-Credential", "X-Amz-Date",
                            "X-Amz-Expires", "X-Amz-SignedHeaders", "X-Amz-Security-Token",
                            "X-Amz-Signature">>
    IN  PresignedReturned => order(QueryNames(result.val))

\* C13 (amended): a presigned URL has X-Amz-Security-Token exactly when the
\* bucket record has a session token, and then the names are in the order
\* Algorithm, Credential, Date, Expires, Security-Token, SignedHeaders,
\* Signature: the token sorts before X-Amz-SignedHeaders, and its value is the
\* percent-encoded session token.
C13_TokenBeforeSignedHeaders ==
    LET order(names) ==
            /\ (\E i \in 1..Len(names) : names[i] = "X-Amz-Security-Token")
                  <=> Truthy(PresignedRec["session_token"])
            /\ Truthy(PresignedRec["session_token"]) =>
                  /\ names = <<"X-Amz-Algorithm", "X-Amz-Credential", "X-Amz-Date",
                               "X-Amz-Expires", "X-Amz-Security-Token", "X-Amz-SignedHeaders",
                               "X-Amz-Signature">>
                  /\ Ascending(SubSeq(names, 1, 6))
    IN  PresignedReturned =>
            /\ order(QueryNames(result.val))
            /\ Truthy(PresignedRec["session_token"]) =>
                  Contains(result.val,
                           <<"&", "X-Amz-Security-Token", "=">>
                               \o _aws_encode_query_param(PresignedRec["session_token"])
                               \o <<"&", "X-Amz-SignedHeaders", "=", "host", "&",
                                    "X-Amz-Signature", "=">>)

C13_Witness ==
    /\ PresignedReturned /\ call.op = "generate_presigned_url"
    /\ call.rec["session_token"] = <<"tok", "/", "en">>
    /\ Contains(result.val, <<"&", "X-Amz-Security-Token", "=", "tok", "%2F", "en", "&">>)

\* what the call of frame f gives when it runs alone on the shared config,
\* with the clock readings f took and the network event f got
AloneRequest(f) == upload_bytes_request(f.call, config, f.t0, ThreadUuid)

AloneResult(f, alone) ==
    LET strip(r) == [kind |-> r.kind, type |-> r.type, val |-> r.val]
    IN  CASE f.call.op = "upload_bytes" ->
                IF ~alone.ok THEN alone.res
                ELSE strip(upload_bytes_finish(alone.locals, urlopen(f.ev), f.t1))
          [] f.call.op = "generate_presigned_url" ->
                strip(generate_presigned_url(f.call.key, f.call.rec, f.call.expires, f.t0))
          [] f.call.op = "build_public_url" -> build_public_url(f.call.key, f.call.rec)

\* the request and the result in frame f are those of f's call run alone
RanAlone(f) ==
    LET same(alone) ==
            /\ f.pc = "put_sent" => (alone.ok /\ f.req = alone.req)
            /\ f.pc = "done" =>
                  /\ f.result = AloneResult(f, alone)
                  /\ f.ev # NoEvent => (alone.ok /\ f.req = alone.req)
    IN  f.pc \in {"put_sent", "done"} => same(AloneRequest(f))

\* C14: the calls share no mutable state: however the steps of concurrent
\* upload_bytes, generate_presigned_url and build_public_url calls interleave,
\* the request each call sends and the result it gives are those of the same
\* call run alone with the same arguments and clock readings; a step of one
\* thread changes neither the shared config nor another thread's locals.
C14_CallsDoNotInterfere ==
    /\ [](\A t \in Threads : RanAlone(threads[t]))
    /\ [][/\ config' = config
          /\ \A t, o \in Threads :
                (t # o /\ threads'[t] # threads[t]) => threads'[o] = threads[o]]_vars

C14_Witness ==
    /\ threads[1].pc = "done" /\ threads[1].call.op = "upload_bytes"
    /\ threads[1].call.key = <<"a">> /\ threads[1].call.bucket = None
    /\ Returned(threads[1].result) /\ threads[1].t1 = 1
    /\ threads[2].pc = "put_sent" /\ threads[2].call.key = <<"\\", "b">>
    /\ threads[2].call.bucket = <<"alias">> /\ threads[2].t0 = 0

\* the key batch_upload's i-th file is stored under, when the date of the
\* default prefix is read at instant t
BatchKey(i, t) ==
    LET prefix == Strip(batch.key_prefix, {"/"})
    IN  (IF prefix # <<>> THEN prefix ELSE default_key_prefix(t))
            \o <<"/">> \o Basename(batch.files[i])

\* the bucket record the batch uploads to
BatchRec == resolve_bucket_config(config, batch.bucket).rec

\* C15: batch_upload uploads one file at a time in input order: the log of a
\* batch is PUT 1, returned 1, PUT 2, returned 2, ..., each PUT going to the
\* object of its file; and a returned list has one URL per input file, the
\* i-th being the public or presigned URL of the i-th file's object.
C15_BatchIsSequential ==
    /\ \A k \in 1..Len(batch.log) :
          /\ batch.log[k].i = (k + 1) \div 2
          /\ batch.log[k].kind = IF k % 2 = 1 THEN "put" ELSE "returned"
          /\ batch.log[k].kind = "put" =>
                EndsWith(batch.log[k].url,
                         <<"/">> \o _aws_encode_uri(BatchKey(batch.log[k].i, batch.log[k].at)))
    /\ (batch.pc = "done" /\ Returned(batch.result)) =>
          /\ Len(batch.result.val) = Len(batch.files)
          /\ Len(batch.log) = 2 * Len(batch.files)
          /\ \A i \in 1..Len(batch.files) :
                batch.result.val[i] =
                    IF batch.make_public
                    THEN build_public_url(BatchKey(i, batch.log[2 * i - 1].at), BatchRec).val
                    ELSE generate_presigned_url(BatchKey(i, batch.log[2 * i - 1].at), BatchRec,
                                                300, batch.log[2 * i].at).val

C15_Witness ==
    /\ batch.pc = "done" /\ Returned(batch.result)
    /\ batch.files = <<<<"g">>, <<"d", "/", "f", ".png">>>>
    /\ ~batch.make_public /\ batch.log[4].at = 1 /\ batch.log[1].at = 0

\* C16: get_signature_key(secret, date_stamp, region, service) is
\* HMAC(HMAC(HMAC(HMAC("AWS4" + secret, date_stamp), region), service),
\* "aws4_request"), each stage keyed by the stage before: a value fixed by the
\* four arguments alone, whatever the clock and the config are.
C16_SignatureKeyIsTheHmacChain ==
    pure.fn = "get_signature_key" =>
        pure.out =
            <<"hmac(", "hmac(", "hmac(", "hmac(", "AWS4">> \o pure.args[1]
                \o <<",">> \o pure.args[2] \o <<")", ",">> \o pure.args[3]
                \o <<")", ",">> \o pure.args[4] \o <<")", ",", "aws4_request", ")">>

C16_Witness ==
    /\ pure.fn = "get_signature_key"
    /\ pure.args = <<<<"S", "2">>, <<"19700102">>, <<"us-east-1">>, <<"ec2">>>>
    /\ Len(pure.out) = 19

\* the dict whose items are given
DictOf(items) ==
    [n \in {items[i][1] : i \in 1..Len(items)} |->
        items[CHOOSE i \in 1..Len(items) : items[i][1] = n][2]]

\* C17: the canonical header block and the signed-header list do not depend
\* on the order in which the headers were put into the dict: whatever that
\* order, they are those of the order upload_bytes itself uses, with the names
\* in byte-wise ascending order, each followed by its normalized value.
C17_CanonicalHeadersIgnoreInsertionOrder ==
    pure.fn = "canonical_headers" =>
        LET d == DictOf(pure.args)
            names == SortedItems(SortedHeaderNames, d)
        IN  /\ pure.out = <<CanonicalHeaders(HeaderItems(d)), SignedHeaderList(HeaderItems(d))>>
            /\ Ascending(names)
            /\ pure.out[2] = Join(<<";">>, [i \in 1..Len(names) |-> <<names[i]>>])
            /\ pure.out[1] =
                  Flatten([i \in 1..Len(names) |->
                      <<names[i], ":">> \o _normalize_header_value(d[names[i]]) \o <<"\n">>])

C17_Witness ==
    /\ pure.fn = "canonical_headers"
    /\ Len(pure.args) = 6
    /\ pure.args[1][1] = "x-amz-security-token" /\ pure.args[2][1] = "x-amz-date"
    /\ pure.args[6][1] = "cache-control"

\* C18: the normalized key has no backslash and no leading "/", normalizing
\* it again changes nothing, and the key in the PUT's URL and canonical URI
\* and in every URL returned by upload_bytes, generate_presigned_url and
\* build_public_url is the normalized key (percent-encoded where the code
\* encodes it), right after the single "/" that follows the bucket or base.
C18_KeysAreNormalized ==
    (call.op \in {"upload_bytes", "generate_presigned_url", "build_public_url"}
        /\ call.key # None) =>
        LET nk == _normalize_key(call.key)
            enc == _aws_encode_uri(nk)
            rec == IF call.op = "upload_bytes" THEN locals.bucket_config ELSE call.rec
        IN  /\ \A i \in 1..Len(nk) : nk[i] # "\\"
            /\ nk # <<>> => nk[1] # "/"
            /\ _normalize_key(nk) = nk
            /\ \A i \in 1..Len(enc) : enc[i] \notin {"\\", "%5C"}
            /\ (call.op = "upload_bytes" /\ net # <<>>) =>
                  /\ EndsWith(net[1].url, <<"/">> \o SelectedName \o <<"/">> \o enc)
                  /\ Contains(net[1].signature,
                              <<"PUT", "\n", "/">> \o SelectedName \o <<"/">> \o enc \o <<"\n">>)
            /\ (pc = "done" /\ Returned(result)) =>
                  IF call.op = "build_public_url" \/ (call.op = "upload_bytes" /\ call.make_public)
                  THEN /\ EndsWith(result.val, <<"/">> \o nk)
                       /\ result.val[Len(result.val) - Len(nk) - 1] # "/"
                  ELSE Contains(result.val,
                                <<"/">> \o rec["bucket_name"] \o <<"/">> \o enc \o <<"?">>)

C18_Witness ==
    /\ pc = "done" /\ call.op = "upload_bytes" /\ call.make_public
    /\ call.key = <<"\\", "a">> /\ Returned(result)
    /\ EndsWith(result.val, <<"cdn", "/", "a">>)

\* C19: the content type is the non-empty override when there is one, else
\* what the MIME lookup gives for the name, else the fallback table's entry,
\* else application/octet-stream; so photo.jpg with override text/custom is
\* text/custom, photo.jpg alone is image/jpeg and data.xyz is
\* application/octet-stream.
C19_ContentTypePriority ==
    pure.fn = "_guess_content_type" =>
        LET name == pure.args[1]
            override == pure.args[2]
        IN  /\ Truthy(override) => pure.out = override
            /\ (name = <<"photo", ".jpg">> /\ override = <<"text/custom">>)
                  => pure.out = <<"text/custom">>
            /\ (name = <<"photo", ".jpg">> /\ ~Truthy(override)) => pure.out = <<"image/jpeg">>
            /\ (name = <<"data", ".xyz">> /\ ~Truthy(override))
                  => pure.out = <<"application/octet-stream">>

\* the text b is base without its trailing "/"s
WithoutTrailingSlashes(b, base) ==
    /\ Len(b) <= Len(base) /\ b = SubSeq(base, 1, Len(b))
    /\ \A i \in (Len(b) + 1)..Len(base) : base[i] = "/"
    /\ b # <<>> => b[Len(b)] # "/"

\* C20: for a valid bucket record build_public_url returns base "/" key, where
\* key is the normalized key and base is public_url when that is configured
\* and non-empty, else endpoint "/" bucket_name, without its trailing "/"s: a
\* single "/" stands between the two.  Key 2025/01/15/a.png with endpoint
\* https://h and bucket b gives https://h/b/2025/01/15/a.png.
C20_PublicUrlShape ==
    (pc = "done" /\ call.op = "build_public_url" /\ ValidRecord(call.rec)) =>
        LET nk == _normalize_key(call.key)
            base == IF call.rec["public_url"] \notin {None, <<>>}
                    THEN call.rec["public_url"]
                    ELSE _normalize_endpoint(call.rec["endpoint"]).endpoint
                            \o <<"/">> \o call.rec["bucket_name"]
            n == Len(result.val) - Len(nk) - 1
        IN  /\ Returned(result)
            /\ n >= 0
            /\ SubSeq(result.val, n + 1, Len(result.val)) = <<"/">> \o nk
            /\ WithoutTrailingSlashes(SubSeq(result.val, 1, n), base)
            /\ nk # <<>> => nk[1] # "/"
            /\ (call.key = <<"2025", "/", "01", "/", "15", "/", "a", ".png">>
                  /\ call.rec["endpoint"] = <<"https://", "h">>
                  /\ call.rec["bucket_name"] = <<"b">>
                  /\ call.rec["public_url"] \in {None, <<>>})
                  => result.val = <<"https://", "h", "/", "b", "/",
                                    "2025", "/", "01", "/", "15", "/", "a", ".png">>

C20_Witness ==
    /\ pc = "done" /\ call.op = "build_public_url"
    /\ call.rec["public_url"] = <<"https://", "cdn", "/", "/">>
    /\ call.key = <<"/", "/", "a">>
    /\ result = Return(<<"https://", "cdn", "/", "a">>)

\* the local date of instant t as YYYY/MM/DD (year and month are one token each)
LocalDate(t) == <<"Y", "/", "M", "/", ToString(t \div SecondsPerDay)>>

\* the key of the object the call in progress has sent, and the instant of
\* the PUT
SentKey == IF batch.pc = "put_sent" THEN batch.locals.key ELSE locals.key

SentAt == IF batch.pc = "put_sent" THEN batch.log[Len(batch.log)].at ELSE clock[1]

\* what the default key policy gives the call in progress
DefaultKeys ==
    IF batch.pc = "put_sent"
    THEN {LocalDate(SentAt) \o <<"/">> \o Basename(batch.files[batch.i])}
    ELSE IF call.op = "upload_file"
    THEN {LocalDate(SentAt) \o <<"/">> \o Basename(call.local_path)}
    ELSE {LocalDate(SentAt) \o <<"/", "upload-", u, ".bin">> : u \in Uuids}

C22_ConfigIsNeverModified ==
    /\ [][/\ config' = config
          /\ (call.op # "none" /\ call'.op # "none") => call'.rec = call.rec]_vars
    /\ []((pc = "put_sent" \/ (pc = "done" /\ IsUpload /\ net # <<>>)) =>
             /\ SelectedName \in DOMAIN config.buckets
             /\ locals.bucket_config = config.buckets[SelectedName])
    /\ [](batch.pc = "put_sent" => batch.locals.bucket_config = BatchRec)

C22_Witness ==
    /\ batch.pc = "done" /\ Raised(batch.result) /\ Len(batch.log) = 3
    /\ config.buckets[<<"alias">>] = GoodReal /\ batch.bucket = <<"alias">>

\* C23: in every PUT request upload_bytes builds, the SignedHeaders list (in
\* the Authorization header and in the canonical request that is signed) is
\* the names of all the request's headers other than Authorization, in
\* byte-wise ascending order, joined by ";": host, x-amz-content-sha256,
\* x-amz-date and content-type always; cache-control, content-disposition and
\* x-amz-security-token exactly when the option, or the record's session
\* token, is set and non-empty.
C23_SignedHeadersAreTheHeadersSent ==
    LET signedlist(req, sent, names, list) ==
            /\ Ascending(names)
            /\ Contains(req.headers["Authorization"],
                        <<", ", "SignedHeaders=">> \o list \o <<", ", "Signature=">>)
            /\ Contains(req.signature,
                        <<"\n", "\n">> \o list \o <<"\n">> \o Sha256Hex(req.data) \o <<")">>)
            /\ \A n \in sent :
                  Contains(req.signature,
                           <<n, ":">> \o _normalize_header_value(req.headers[n]) \o <<"\n">>)
        sorted(req, sent, names) ==
            signedlist(req, sent, names, Join(<<";">>, [i \in 1..Len(names) |-> <<names[i]>>]))
        headers(req, sent) ==
            /\ "Authorization" \in DOMAIN req.headers
            /\ {"host", "x-amz-content-sha256", "x-amz-date", "content-type"} \subseteq sent
            /\ sent \subseteq {SortedHeaderNames[i] : i \in 1..Len(SortedHeaderNames)}
            /\ "cache-control" \in sent <=> Truthy(call.cache_control)
            /\ "content-disposition" \in sent <=> Truthy(call.content_disposition)
            /\ "x-amz-security-token" \in sent <=> Truthy(locals.bucket_config["session_token"])
            /\ sorted(req, sent, SelectSeq(SortedHeaderNames, LAMBDA n : n \in sent))
        request(req) == headers(req, DOMAIN req.headers \ {"Authorization"})
    IN  (pc = "put_sent" /\ IsUpload) => (Len(net) = 1 /\ request(net[1]))

C23_Witness ==
    /\ pc = "put_sent" /\ call.op = "upload_bytes"
    /\ call.cache_control = HeaderText
    /\ locals.bucket_config["session_token"] = <<"tok", "/", "en">>
    /\ Cardinality(DOMAIN net[1].headers) = 8

\* the host and the path component of a URL scheme://host/path?query
UrlHost(url) == SubSeq(url, 2, FirstIn(url, {"/", "?", "#"}, 1) - 1)

UrlPath(url) ==
    SubSeq(url, FirstIn(url, {"/", "?", "#"}, 1), FirstIn(url, {"?", "#"}, 1) - 1)

\* C24: in both signing modes what is signed is what is used.  The path of
\* the PUT's URL is /{bucket}/{percent-encoded normalized key}, bucket being
\* the bucket name upload_bytes resolved, and it is the canonical URI of the
\* PUT's canonical request; the path of a presigned URL is
\* /{bucket_name}/{percent-encoded normalized key} and it is the canonical URI
\* of the GET canonical request; in both, the host that is signed is the host
\* of that URL.
C24_SignedUriIsThePathUsed ==
    LET put(req, path, host) ==
            /\ path = <<"/">> \o SelectedName \o <<"/">> \o _aws_encode_uri(locals.key)
            /\ Contains(req.signature, <<"sha256(", "PUT", "\n">> \o path \o <<"\n", "\n">>)
            /\ req.headers["host"] = host
            /\ Contains(req.signature, <<"\n", "host", ":">> \o host \o <<"\n">>)
        get(url, sig, path, host, key) ==
            /\ path = <<"/">> \o PresignedRec["bucket_name"] \o <<"/">> \o _aws_encode_uri(key)
            /\ Contains(sig, <<"sha256(", "GET", "\n">> \o path \o <<"\n", "X-Amz-Algorithm">>)
            /\ Contains(sig, <<"\n", "host:">> \o host
                                \o <<"\n", "\n", "host", "\n", "UNSIGNED-PAYLOAD", ")">>)
    IN  /\ (pc = "put_sent" /\ IsUpload) =>
              put(net[1], UrlPath(net[1].url), UrlHost(net[1].url))
        /\ PresignedReturned =>
              get(result.val, signed[Len(signed)], UrlPath(result.val), UrlHost(result.val),
                  IF IsUpload THEN locals.key ELSE _normalize_key(call.key))

C24_Witness ==
    /\ PresignedReturned /\ call.op = "upload_bytes" /\ call.key = <<" ", "?">>
    /\ call.bucket = <<"alias">>
    /\ UrlPath(net[1].url) = <<"/", "alias", "/", "%20", "%3F">>
    /\ UrlPath(result.val) = <<"/", "real", "/", "%20", "%3F">>

\* the signing context a signing call has put on the wire: the amzDate and
\* the credential (access key and scope) of a PUT request or a presigned URL
WireContext(op, o) ==
    IF op = "upload_bytes"
    THEN <<o.headers["x-amz-date"],
           SubSeq(o.headers["Authorization"], 3,
                  FirstIn(o.headers["Authorization"], {", "}, 1) - 1)>>
    ELSE <<ParamValue(o, "X-Amz-Date"), ParamValue(o, "X-Amz-Credential")>>

\* the signing context of a call for record rec whose clock reads second s
ContextAt(op, rec, s) ==
    LET region == IF rec["region"] = None THEN <<"auto">> ELSE rec["region"]
        scope == rec["access_key_id"]
                    \o <<"/", ToString(s \div SecondsPerDay), "/">> \o region
                    \o <<"/", "s3", "/", "aws4_request">>
        amz == <<ToString(s \div SecondsPerDay), "T", ToString(s % SecondsPerDay), "Z">>
    IN  IF op = "upload_bytes" THEN <<amz, scope>>
        ELSE <<amz, [i \in 1..Len(scope) |-> IF scope[i] = "/" THEN "%2F" ELSE scope[i]]>>

\* C25 (as stated): every signing call derives its context from the clock
\* reading of that call, and two signing calls made at different instants have
\* different signing contexts.
C25_DifferentInstantsDiverge ==
    pure.fn = "signing" =>
        (pure.args[3] # pure.args[4]
            => WireContext(pure.args[1], pure.out[1]) # WireContext(pure.args[1], pure.out[2]))

\* C25 (amended): every signing call (the PUT signing of upload_bytes, each
\* generate_presigned_url call) derives amzDate, dateStamp and credential scope
\* from the clock reading of that call, never from the reading of the call
\* before: amzDate is that reading cut to whole seconds, dateStamp is the date
\* part amzDate starts with, the scope is dateStamp/region/s3/aws4_request
\* with region "auto" when the record has none; so two signing calls have
\* different contexts exactly when their readings differ in the whole second,
\* and calls within one second sign with the same context.
C25_ContextFromTheCallsOwnSecond ==
    pure.fn = "signing" =>
        LET op == pure.args[1]
            rec == pure.args[2]
            s1 == pure.args[3] \div 2
            s2 == pure.args[4] \div 2
        IN  /\ WireContext(op, pure.out[1]) = ContextAt(op, rec, s1)
            /\ WireContext(op, pure.out[2]) = ContextAt(op, rec, s2)
            /\ (s1 # s2) <=> (WireContext(op, pure.out[1]) # WireContext(op, pure.out[2]))
            /\ s1 = s2 => pure.out[1] = pure.out[2]

C25_Witness ==
    /\ pure.fn = "signing" /\ pure.args[1] = "upload_bytes" /\ pure.args[2] = GoodFull
    /\ pure.args[3] = 1 /\ pure.args[4] = 2 * SecondsPerDay + 1
    /\ WireContext("upload_bytes", pure.out[2])[1] = <<"1", "T", "0", "Z">>
    /\ WireContext("upload_bytes", pure.out[1])[2] =
          <<"AK", "/", "0", "/", "us-east-1", "/", "s3", "/", "aws4_request">>

\* C26: the URL a successful upload returns addresses the object that was
\* uploaded: the presigned URL, and the public URL when the record has no
\* public_url, has the host, the bucket segment and the key of the URL the PUT
\* was sent to, also when the record is listed in the config under a name
\* other than its bucket_name.
C26_ReturnedUrlAddressesTheUpload ==
    (/\ pc = "done" /\ IsUpload /\ Returned(result)
     /\ ~call.make_public \/ ~Truthy(locals.bucket_config["public_url"]))
        => /\ UrlHost(result.val) = UrlHost(net[1].url)
           /\ UrlPath(result.val) = UrlPath(net[1].url)

\* C27: expires is validated before the object is sent: whenever an upload
\* fails because expires is not in [1, 604800], no PUT request has been
\* issued; and a PUT is never issued with an expires outside that range,
\* whether make_public is false or true.
C27_ExpiresValidatedBeforePut ==
    IsUpload =>
        /\ (pc = "done"
              /\ result = R2UploadError(<<"expires must be between 1 and ",
                                          ToString(MAX_PRESIGN_EXPIRES), " seconds">>))
              => net = <<>>
        /\ net # <<>> => (call.expires >= 1 /\ call.expires <= MAX_PRESIGN_EXPIRES)

\* C28: batch_upload stops at the first file whose upload fails.  When the
\* batch has ended with an exception at its i-th file: the caller has the
\* exception and no list (the i-1 URLs gathered so far stay in the local
\* list), the files before the i-th were each read, sent and answered, no file
\* after the i-th was read or sent, and nothing but PUTs was ever sent (no
\* upload is undone); the batch then does nothing more.  Every PUT but the one
\* in flight or failed has been answered before the next file is touched.
C28_BatchStopsAtFirstFailure ==
    /\ []((batch.pc = "done" /\ Raised(batch.result)) =>
             /\ batch.i \in 1..Len(batch.files)
             /\ Len(batch.urls) = batch.i - 1
             /\ Len(reads) \in {batch.i - 1, batch.i}
             /\ reads = SubSeq(batch.files, 1, Len(reads))
             /\ Len(batch.log) \in {2 * (batch.i - 1), 2 * (batch.i - 1) + 1}
             /\ Len(batch.log) = 2 * batch.i - 1 => Len(reads) = batch.i
             /\ \A k \in 1..Len(batch.log) : batch.log[k].i <= batch.i)
    /\ [](\A k \in 1..Len(batch.log) :
             /\ batch.log[k].kind \in {"put", "returned"}
             /\ (batch.log[k].kind = "put" /\ k < Len(batch.log)) =>
                   (batch.log[k + 1].kind = "returned" /\ batch.log[k + 1].i = batch.log[k].i))
    /\ []((batch.pc = "done" /\ Returned(batch.result)) =>
             (reads = batch.files /\ Len(batch.log) = 2 * Len(batch.files)))
    /\ [][batch.pc = "done" => batch' = IdleBatch]_vars

C28_Witness ==
    /\ batch.pc = "done" /\ Raised(batch.result) /\ batch.result.type = "R2UploadError"
    /\ batch.files = <<<<"g">>, <<"d", "/", "f", ".png">>>> /\ batch.i = 1
    /\ reads = <<<<"g">>>> /\ Len(batch.log) = 1

\* what the fetches of a call gave, in the order of the sources argument: the
\* articles of each fetch that returned, nothing for a fetch that raised
InArgumentOrder(f) ==
    Flatten([i \in 1..Len(f.sources) |-> IF f.outcome[i].ok THEN f.outcome[i].val ELSE <<>>])

\* C29: fetch_multi_source runs one fetch per element of sources and returns
\* only when each has finished; whatever the order in which the fetches
\* finish, the list returned is the articles of the fetches that returned,
\* grouped in the order of the sources argument, a fetch that raised giving
\* nothing and the others being unaffected by it.
C29_ArticlesInArgumentOrder ==
    fetch.pc = "done" =>
        /\ Len(fetch.state) = Len(fetch.sources)
        /\ \A i \in 1..Len(fetch.state) : fetch.state[i] = "collected"
        /\ fetch.out = InArgumentOrder(fetch)

\* C29 for sources that are pairwise distinct: then the list returned is the
\* one above, whatever the order of completion.
C29_DistinctSourcesInArgumentOrder ==
    (fetch.pc = "done"
        /\ \A i, j \in 1..Len(fetch.sources) : i # j => fetch.sources[i] # fetch.sources[j])
        => /\ \A i \in 1..Len(fetch.state) : fetch.state[i] = "collected"
           /\ fetch.out = InArgumentOrder(fetch)

\* the number of articles of a source in a list
ArticlesOf(articles, src) == Len(SelectSeq(articles, LAMBDA a : SourceOf(a) = src))

\* what the sources of a list hold within their first per_source entries
RECURSIVE WithinPerSource(_, _, _)
WithinPerSource(articles, order, per_source) ==
    IF order = <<>> THEN 0
    ELSE (IF ArticlesOf(articles, Head(order)) < per_source
          THEN ArticlesOf(articles, Head(order)) ELSE per_source)
         + WithinPerSource(articles, Tail(order), per_source)

C30_Returned ==
    pick.pc = "done" =>
        /\ Len(pick.out) = (IF pick.limit < Len(pick.articles)
                            THEN pick.limit ELSE Len(pick.articles))
        /\ \A m \in 1..Len(pick.out) : \E n \in 1..Len(pick.articles) :
              pick.out[m] = pick.articles[n]
        /\ \A m, n \in 1..Len(pick.out) : m # n => pick.out[m] # pick.out[n]
        /\ WithinPerSource(pick.articles, SourceOrder(pick.articles), pick.per_source)
               >= pick.limit
           => \A m \in 1..Len(pick.articles) :
                 ArticlesOf(pick.out, SourceOf(pick.articles[m])) <= pick.per_source

\* C30: every call of pick_articles_balanced (limit >= 0, per_source >= 0)
\* comes to its return, and the list returned has min(limit, number of
\* articles) articles, all of the input and none of them twice; when the
\* sources hold at least limit articles within their first per_source
\* entries, no source has more than per_source articles in it.
C30_TerminatesWithTheBalancedPick ==
    /\ []C30_Returned
    /\ (pick.pc = "first") ~> (pick.pc = "done")

\* a call on articles of two sources that took one article of each in the
\* first round and returned in the second pass of the second round
C30_Witness ==
    /\ pick.pc = "done"
    /\ pick.per_source = 1
    /\ pick.i > pick.per_source
    /\ Len(pick.source_order) = 2
    /\ Len(pick.out) = pick.limit

====
